---- MODULE Spec2Model ----
(***************************************************************************)
(* FakeMCServer: a decoy Minecraft endpoint.                               *)
(*                                                                         *)
(* Four subsystems are modelled, each with its own specification over      *)
(* the one set of variables:                                               *)
(*   SpecLimiter  internal/limiter/rate_limiter.go  (RateLimiter)          *)
(*   SpecServer   internal/network  (Server, the acceptor and its reaper)  *)
(*   SpecHandler  internal/protocol (FastHandler, one task per session)    *)
(*   SpecSyncer   internal/sync/upstream.go  (UpstreamSyncer)              *)
(* and SpecAdmission is the handler together with the limiter under        *)
(* either limiter configuration.                                           *)
(* Further specifications cover single concerns:                           *)
(*   SpecLogger    internal/logger  (HoneypotLogger and its CSV file)      *)
(*   SpecShutdown  Server.Start/Stop: cancellation, the close-all pass     *)
(*   SpecTasks     the background tasks after cancellation, with fairness  *)
(*   SpecCancel    HandleConnection under a cancelled context              *)
(*   SpecCodec     encodeVarInt and the VarInt reader                      *)
(*   SpecConfig    config.Load: setDefaults and validate                   *)
(*   SpecWriters   concurrent LogEvent and Close on one HoneypotLogger     *)
(*   SpecConnMgr   ConnectionManager: Store, Delete, CleanupExpired        *)
(*   SpecFast      FastRateLimiter: Allow and Reset                        *)
(*                                                                         *)
(* Time is a discrete clock `now` counted in seconds.  Durations of the    *)
(* configuration are given in seconds, the float64 factors of the delay    *)
(* configuration in tenths.                                                *)
(***************************************************************************)
EXTENDS Integers, Sequences, FiniteSets, TLC

VARIABLES
    now,            \* time.Now(), in seconds since the limiter was created
    cfg,            \* *config.Config, fixed after Load
    \* ---- RateLimiter (rate_limiter.go) ----
    globalLimiter,  \* rl.globalLimiter, a rate.Limiter
    ipLimiters,     \* rl.ipLimiters: address -> pointer to an IPLimiterInfo (0 = no entry)
    recs,           \* the heap of IPLimiterInfo objects, by pointer
    totalRequests,  \* rl.totalRequests (rl.globalRequests moves in step with it)
    lpc,            \* position of each caller of the limiter
    call,           \* the call each caller is making: arguments, locals, result
    spc,            \* position of the cleanup routine
    sweepNow,       \* `now` local of CleanupExpiredLimiters (-1 before the first sweep)
    expiredIPs,     \* expiredIPs local of CleanupExpiredLimiters
    nextSweep,      \* next firing time of the cleanup ticker
    ncalls,         \* calls of the limiter begun so far
    lastActive,     \* per address with a table entry, when a call for it last
                    \* returned (-1 = no entry, or no call has returned yet)
    \* ---- network Server (connection_manager.go, config.go) ----
    scfg,           \* config.Server: MaxConnections, IdleTimeout
    build,          \* "net": one goroutine per accepted socket (windows build);
                    \* "netpoll": onPrepare called by the accepting poller (other builds)
    sst,            \* position of each session
    sconn,          \* the *Connection of each session: RemoteIP, ID, StartTime
    sockOpen,       \* whether the session's socket is open
    connections,    \* s.connections: the entries <<ID, session>> of the sync.Map
    connCount,      \* s.connCount
    rpc,            \* position of cleanupExpiredConnections
    rnow,           \* its local `now`
    rtodo,          \* keys its Range has still to visit
    rdec,           \* decrements it has still to make
    \* ---- FastHandler on one connection, its peer, the honeypot log ----
    hpc,            \* position of HandleConnection
    inbuf,          \* bytes the peer has sent and the handler has not read
    sent,           \* the frames the peer has sent, in order (by name)
    peerClosed,     \* the peer has closed its end
    written,        \* the frames the handler has written to the socket
    events,         \* the honeypot events logged for this connection
    hdelay,         \* `delay` local of HandleConnection
    loginDelay,     \* `loginDelay` local of handleLoginFast
    herr,           \* what HandleConnection returned
    hpEnabled,      \* honeypotLogger.enabled
    paid,           \* the delays the handler has slept through, in order
    \* ---- UpstreamSyncer (sync/upstream.go), its poller and its readers ----
    ucfg,           \* config.Upstream: OverrideVersion, RetryCount
    cachedResponse, \* us.cachedResponse, a slice header: data pointer and length
    upstreamUnavailable,  \* us.upstreamUnavailable
    mu,             \* us.mu: whether the writer holds it, which readers hold it
    ppc,            \* position of the poller (syncOnce and the update it calls)
    attempt,        \* `attempt` local of syncOnce
    resp,           \* the payload the poller is about to cache
    polls,          \* calls of syncOnce begun so far
    lastPoll,       \* the last finished syncOnce: how it ended, what it received
    gpc,            \* position of each caller of GetRawResponse
    got,            \* the slice header each caller has read
    assigned,       \* every slice header the cache has held in full
    \* ---- HoneypotLogger in CSV mode and its file (logger, lumberjack) ----
    hl,             \* the logger of the running process and the file on disk
    \* ---- Server shutdown (lifecycleManager, acceptConnections) ----
    life,           \* the cancellation signal, s.running, the listener, the
                    \* position of lifecycleManager and of the accept loop
    \* ---- the loops of the long-lived tasks ----
    tasks,          \* position of syncLoop, of the cleanup routine of the
                    \* limiter and of cleanupConnections
    \* ---- the VarInt codec ----
    codec,          \* a value, the bytes encodeVarInt made of it, and what
                    \* packet.VarInt.ReadFrom read back
    \* ---- config.Load ----
    conf,           \* the configuration as parsed from the file, as it is after
                    \* setDefaults, and the error of validate
    \* ---- ConnectionManager (connection_manager.go:9-122) ----
    cm,             \* the shards' maps, cm.count and where each caller is
    \* ---- FastRateLimiter (fast_limiter.go) ----
    frl             \* globalCount, the per-IP counts and where each caller is

limiterVars == <<globalLimiter, ipLimiters, recs, totalRequests, lpc, call,
                 spc, sweepNow, expiredIPs, nextSweep, ncalls, lastActive>>

serverVars == <<scfg, build, sst, sconn, sockOpen, connections, connCount,
                rpc, rnow, rtodo, rdec>>

handlerVars == <<hpc, inbuf, sent, peerClosed, written, events, hdelay,
                 loginDelay, herr, hpEnabled, paid>>

syncerVars == <<ucfg, cachedResponse, upstreamUnavailable, mu, ppc, attempt,
                resp, polls, lastPoll, gpc, got, assigned>>

auxVars == <<hl, life, tasks, codec, conf, cm, frl>>

----------------------------------------------------------------------------
(* Bounds of the model *)

MaxTime == 4            \* the clock stops here
MaxCalls == 2           \* calls of the limiter in one run

Procs == {"p1", "p2"}   \* concurrent callers of the limiter
IPs == {"a", "b"}       \* source addresses
\* pointers: one object per table entry and one held by each caller
RecIds == 1..(Cardinality(IPs) + Cardinality(Procs))

Min(a, b) == IF a <= b THEN a ELSE b
Max(a, b) == IF a >= b THEN a ELSE b

(* Configurations after Load: defaults applied, validate passed.  The      *)
(* factors and multipliers are in tenths (15 = 1.5).                       *)
TightIPConfig ==
    [IPLimit |-> 1, GlobalLimit |-> 2, CleanupInterval |-> 2,
     BaseDelay |-> 2, MaxIPPenalty |-> 5, MaxGlobalPenalty |-> 3,
     IPFrequencyFactor |-> 15, GlobalLoadFactor |-> 12,
     IPRateMultiplier |-> 20, GlobalRateMultiplier |-> 15]

TightGlobalConfig ==
    [IPLimit |-> 2, GlobalLimit |-> 1, CleanupInterval |-> 2,
     BaseDelay |-> 1, MaxIPPenalty |-> 4, MaxGlobalPenalty |-> 2,
     IPFrequencyFactor |-> 15, GlobalLoadFactor |-> 12,
     IPRateMultiplier |-> 20, GlobalRateMultiplier |-> 15]

LimiterConfigs == {TightIPConfig, TightGlobalConfig}

----------------------------------------------------------------------------
(* golang.org/x/time/rate.Limiter as the limiter uses it: NewLimiter(r, b) *)
(* with b = r, and Allow().  The library computes the refill lazily from   *)
(* the time of the last take; the bucket holds the same tokens when each   *)
(* second adds its share (Refill).                                         *)

NewLimiter(r) == [limit |-> r, burst |-> r, tokens |-> r]

\* Limiter.advance over one second
Refill(lim) == [lim EXCEPT !.tokens = Min(lim.burst, lim.tokens + lim.limit)]

LimiterAllowOK(lim) == lim.tokens >= 1

\* Limiter.Allow: the bucket afterwards (unchanged when refused)
LimiterAllow(lim) ==
    IF LimiterAllowOK(lim) THEN [lim EXCEPT !.tokens = @ - 1] ELSE lim

----------------------------------------------------------------------------
(* IPLimiterInfo objects *)

NoRec == [free |-> TRUE]

NewIPLimiterInfo(t) ==
    [Limiter |-> NewLimiter(cfg.IPLimit), RequestCount |-> 0,
     FirstRequest |-> t, LastRequest |-> t]

FreeRecs == {r \in RecIds : recs[r] = NoRec}
NewRec == CHOOSE r \in FreeRecs : \A q \in FreeRecs : r <= q

\* Objects no table entry and no caller points to are garbage.
Collect(rs, tbl, cl) ==
    [r \in RecIds |->
        IF r \in {tbl[ip] : ip \in IPs} \cup {cl[p].rec : p \in Procs}
        THEN rs[r] ELSE NoRec]

\* A call: its operation and argument, the record the lookup returned, and
\* what it observed: the buckets it took from, in order (took), by how
\* much its own take lowered the global and the per-IP bucket (gTaken,
\* ipTaken), the RequestCount and the load factor CalculateDelay read
\* (seenCount, load), and what it returned.
NoCall == [op |-> "none", ip |-> "a", rec |-> 0, took |-> <<>>,
           gTaken |-> 0, ipTaken |-> 0,
           seenCount |-> 0, load |-> [n |-> 1, d |-> 1],
           result |-> "none", delay |-> 0]

\* Callers are interchangeable, and so are addresses: p2 begins a call only
\* while p1 is inside one, and the first call of a run is for address "a"
\* (any other run is one of these with the two names swapped).
MayBegin(p, ip) ==
    /\ lpc[p] = "idle"
    /\ ncalls < MaxCalls
    /\ p = "p2" => lpc["p1"] # "idle"
    /\ ncalls = 0 => ip = "a"

\* where a caller goes once getOrCreateIPLimiter has returned
AfterLookup(op) == IF op = "Allow" THEN "ip" ELSE "compute"

----------------------------------------------------------------------------
(* RateLimiter.Allow, rate_limiter.go:51-73, one action per atomic step *)

\* lines 51-58: the global bucket
AllowGlobal(p, ip) ==
    /\ MayBegin(p, ip)
    /\ ncalls' = ncalls + 1
    /\ UNCHANGED lastActive
    /\ LET ok == LimiterAllowOK(globalLimiter)
           after == LimiterAllow(globalLimiter)
       IN /\ globalLimiter' = after
          /\ call' = [call EXCEPT ![p] =
                 [NoCall EXCEPT !.op = "Allow", !.ip = ip,
                     !.took = IF ok THEN <<"global">> ELSE <<>>,
                     !.gTaken = globalLimiter.tokens - after.tokens,
                     !.result = IF ok THEN "pending" ELSE "deny_global"]]
          /\ lpc' = [lpc EXCEPT ![p] = IF ok THEN "load" ELSE "done"]
    /\ UNCHANGED <<serverVars, handlerVars, now, cfg, syncerVars, auxVars, ipLimiters, recs, totalRequests,
                   spc, sweepNow, expiredIPs, nextSweep>>

\* getOrCreateIPLimiter, lines 118-121: ipLimiters.Load
LookupLoad(p) ==
    /\ lpc[p] = "load"
    /\ LET r == ipLimiters[call[p].ip]
       IN IF r # 0
          THEN /\ call' = [call EXCEPT ![p].rec = r]
               /\ lpc' = [lpc EXCEPT ![p] = AfterLookup(call[p].op)]
          ELSE /\ call' = call
               /\ lpc' = [lpc EXCEPT ![p] = "store"]
    /\ UNCHANGED <<serverVars, handlerVars, now, cfg, syncerVars, auxVars, globalLimiter, ipLimiters, recs, totalRequests,
                   spc, sweepNow, expiredIPs, nextSweep, ncalls, lastActive>>

\* A buggy variant: the candidate is stored whether or not another caller
\* has stored one (Store in place of LoadOrStore).
LookupStore_Overwrite(p) ==
    /\ lpc[p] = "store"
    /\ FreeRecs # {}
    /\ recs' = [recs EXCEPT ![NewRec] = NewIPLimiterInfo(now)]
    /\ ipLimiters' = [ipLimiters EXCEPT ![call[p].ip] = NewRec]
    /\ call' = [call EXCEPT ![p].rec = NewRec]
    /\ lpc' = [lpc EXCEPT ![p] = AfterLookup(call[p].op)]
    /\ UNCHANGED <<serverVars, handlerVars, now, cfg, syncerVars, auxVars, globalLimiter, totalRequests,
                   spc, sweepNow, expiredIPs, nextSweep, ncalls, lastActive>>

\* getOrCreateIPLimiter, lines 123-142: build a candidate, ipLimiters.LoadOrStore
LookupStore(p) ==
    /\ lpc[p] = "store"
    /\ LET ip == call[p].ip
           r == ipLimiters[ip]
       IN IF r # 0
          THEN \* loaded: the candidate is discarded
               /\ call' = [call EXCEPT ![p].rec = r]
               /\ UNCHANGED <<ipLimiters, recs>>
          ELSE /\ FreeRecs # {}
               /\ recs' = [recs EXCEPT ![NewRec] = NewIPLimiterInfo(now)]
               /\ ipLimiters' = [ipLimiters EXCEPT ![ip] = NewRec]
               /\ call' = [call EXCEPT ![p].rec = NewRec]
    /\ lpc' = [lpc EXCEPT ![p] = AfterLookup(call[p].op)]
    /\ UNCHANGED <<serverVars, handlerVars, now, cfg, syncerVars, auxVars, globalLimiter, totalRequests,
                   spc, sweepNow, expiredIPs, nextSweep, ncalls, lastActive>>

\* A buggy variant: a refused address gets its global token back.
AllowIP_Refund(p) ==
    /\ lpc[p] = "ip"
    /\ LET r == call[p].rec
           lim == recs[r].Limiter
           ok == LimiterAllowOK(lim)
           after == LimiterAllow(lim)
       IN /\ recs' = [recs EXCEPT ![r].Limiter = after]
          /\ call' = [call EXCEPT ![p].took = IF ok THEN Append(@, "ip") ELSE @,
                                  ![p].ipTaken = lim.tokens - after.tokens,
                                  ![p].result = IF ok THEN "pending" ELSE "deny_ip"]
          /\ lpc' = [lpc EXCEPT ![p] = IF ok THEN "stats" ELSE "done"]
          /\ globalLimiter' =
                 IF ok THEN globalLimiter
                 ELSE [globalLimiter EXCEPT !.tokens =
                          Min(@ + 1, globalLimiter.burst)]
    /\ UNCHANGED <<serverVars, handlerVars, now, cfg, syncerVars, auxVars, ipLimiters, totalRequests,
                   spc, sweepNow, expiredIPs, nextSweep, ncalls, lastActive>>

\* A buggy variant: the per-IP bucket is consulted but no token is taken.
AllowIP_NoTake(p) ==
    /\ lpc[p] = "ip"
    /\ LET r == call[p].rec
           lim == recs[r].Limiter
           ok == LimiterAllowOK(lim)
       IN /\ call' = [call EXCEPT ![p].took = IF ok THEN Append(@, "ip") ELSE @,
                                  ![p].ipTaken = 0,
                                  ![p].result = IF ok THEN "pending" ELSE "deny_ip"]
          /\ lpc' = [lpc EXCEPT ![p] = IF ok THEN "stats" ELSE "done"]
    /\ UNCHANGED <<serverVars, handlerVars, now, cfg, syncerVars, auxVars, globalLimiter, ipLimiters, recs, totalRequests,
                   spc, sweepNow, expiredIPs, nextSweep, ncalls, lastActive>>

\* lines 60-67: the bucket of the record the lookup returned
AllowIP(p) ==
    /\ lpc[p] = "ip"
    /\ LET r == call[p].rec
           lim == recs[r].Limiter
           ok == LimiterAllowOK(lim)
           after == LimiterAllow(lim)
       IN /\ recs' = [recs EXCEPT ![r].Limiter = after]
          /\ call' = [call EXCEPT ![p].took = IF ok THEN Append(@, "ip") ELSE @,
                                  ![p].ipTaken = lim.tokens - after.tokens,
                                  ![p].result = IF ok THEN "pending" ELSE "deny_ip"]
          /\ lpc' = [lpc EXCEPT ![p] = IF ok THEN "stats" ELSE "done"]
    /\ UNCHANGED <<serverVars, handlerVars, now, cfg, syncerVars, auxVars, globalLimiter, ipLimiters, totalRequests,
                   spc, sweepNow, expiredIPs, nextSweep, ncalls, lastActive>>

\* A buggy variant: the statistics of the address are updated, the global
\* counter is not.
UpdateStats_NoGlobal(p) ==
    /\ lpc[p] = "stats"
    /\ LET r == call[p].rec
       IN recs' = [recs EXCEPT ![r].RequestCount = @ + 1,
                               ![r].LastRequest = now]
    /\ call' = [call EXCEPT ![p].result = "admit"]
    /\ lpc' = [lpc EXCEPT ![p] = "done"]
    /\ UNCHANGED <<serverVars, handlerVars, now, cfg, syncerVars, auxVars, globalLimiter, ipLimiters,
                   totalRequests, spc, sweepNow, expiredIPs, nextSweep, ncalls, lastActive>>

\* lines 69-72 and updateStats, lines 188-202
UpdateStats(p) ==
    /\ lpc[p] = "stats"
    /\ LET r == call[p].rec
       IN recs' = [recs EXCEPT ![r].RequestCount = @ + 1,
                               ![r].LastRequest = now]
    /\ totalRequests' = totalRequests + 1
    /\ call' = [call EXCEPT ![p].result = "admit"]
    /\ lpc' = [lpc EXCEPT ![p] = "done"]
    /\ UNCHANGED <<serverVars, handlerVars, now, cfg, syncerVars, auxVars, globalLimiter, ipLimiters,
                   spc, sweepNow, expiredIPs, nextSweep, ncalls, lastActive>>

----------------------------------------------------------------------------
(* RateLimiter.CalculateDelay, rate_limiter.go:76-115.  The float64        *)
(* arithmetic is done exactly, on fractions [n, d] with d > 0; the one     *)
(* rounding of the code, time.Duration(float64), truncates at the end.     *)

\* calculateIPFrequency, lines 146-164
calculateIPFrequency(info, t) ==
    LET duration == t - info.FirstRequest
        n == info.RequestCount * cfg.IPFrequencyFactor
        d == duration * cfg.IPLimit * 10
    IN IF duration = 0 THEN [n |-> 1, d |-> 1]
       ELSE [n |-> Max(d, n), d |-> d]

\* calculateGlobalLoad, lines 167-185 (rl.startTime is tick 0)
calculateGlobalLoad(total, t) ==
    LET duration == t - 0
        n == total * cfg.GlobalLoadFactor
        d == duration * cfg.GlobalLimit * 10
    IN IF duration = 0 THEN [n |-> 1, d |-> 1]
       ELSE [n |-> Max(d, n), d |-> d]

\* math.Min(cap, factor * multiplier * baseDelay), lines 90-99
Penalty(cap, factor, multiplier) ==
    [n |-> Min(cap * factor.d * 10, factor.n * multiplier * cfg.BaseDelay),
     d |-> factor.d * 10]

\* A buggy variant: the penalty is not capped.
TotalDelay_NoCap(info, total, t) ==
    LET f == calculateIPFrequency(info, t)
        g == calculateGlobalLoad(total, t)
    IN (cfg.BaseDelay * 100 * f.d * g.d
          + f.n * cfg.IPRateMultiplier * cfg.BaseDelay * 10 * g.d
          + g.n * cfg.GlobalRateMultiplier * cfg.BaseDelay * 10 * f.d)
       \div (100 * f.d * g.d)

\* A buggy variant: the frequency factors are not floored at 1.
TotalDelay_NoFloor(info, total, t) ==
    LET duration == t - info.FirstRequest
        f == IF duration = 0 THEN [n |-> 1, d |-> 1]
             ELSE [n |-> info.RequestCount * cfg.IPFrequencyFactor,
                   d |-> duration * cfg.IPLimit * 10]
        ipPenalty == Penalty(cfg.MaxIPPenalty, f, cfg.IPRateMultiplier)
        globalPenalty == Penalty(cfg.MaxGlobalPenalty,
                                 calculateGlobalLoad(total, t),
                                 cfg.GlobalRateMultiplier)
    IN (cfg.BaseDelay * ipPenalty.d * globalPenalty.d
          + ipPenalty.n * globalPenalty.d + globalPenalty.n * ipPenalty.d)
       \div (ipPenalty.d * globalPenalty.d)

\* lines 80-102: totalDelay for the record `info` at time t
TotalDelay(info, total, t) ==
    LET ipPenalty == Penalty(cfg.MaxIPPenalty,
                             calculateIPFrequency(info, t),
                             cfg.IPRateMultiplier)
        globalPenalty == Penalty(cfg.MaxGlobalPenalty,
                                 calculateGlobalLoad(total, t),
                                 cfg.GlobalRateMultiplier)
    IN (cfg.BaseDelay * ipPenalty.d * globalPenalty.d
          + ipPenalty.n * globalPenalty.d + globalPenalty.n * ipPenalty.d)
       \div (ipPenalty.d * globalPenalty.d)

\* lines 76-78: CalculateDelay starts with getOrCreateIPLimiter.  Only p1
\* calls it: all it shares with another call is getOrCreateIPLimiter, and
\* p2 runs that inside Allow.
DelayStart(p, ip) ==
    /\ p = "p1"
    /\ MayBegin(p, ip)
    /\ ncalls' = ncalls + 1
    /\ UNCHANGED lastActive
    /\ call' = [call EXCEPT ![p] =
           [NoCall EXCEPT !.op = "CalculateDelay", !.ip = ip, !.result = "pending"]]
    /\ lpc' = [lpc EXCEPT ![p] = "load"]
    /\ UNCHANGED <<serverVars, handlerVars, now, cfg, syncerVars, auxVars, globalLimiter, ipLimiters, recs, totalRequests,
                   spc, sweepNow, expiredIPs, nextSweep>>

\* lines 80-114
DelayCompute(p) ==
    /\ lpc[p] = "compute"
    /\ call' = [call EXCEPT
           ![p].delay = TotalDelay(recs[call[p].rec], totalRequests, now),
           ![p].seenCount = recs[call[p].rec].RequestCount,
           ![p].load = calculateGlobalLoad(totalRequests, now),
           ![p].result = "delay"]
    /\ lpc' = [lpc EXCEPT ![p] = "done"]
    /\ UNCHANGED <<serverVars, handlerVars, now, cfg, syncerVars, auxVars, globalLimiter, ipLimiters, recs, totalRequests,
                   spc, sweepNow, expiredIPs, nextSweep, ncalls, lastActive>>

\* the call returns to its caller; its locals die
Return(p) ==
    /\ lpc[p] = "done"
    /\ lpc' = [lpc EXCEPT ![p] = "idle"]
    /\ call' = [call EXCEPT ![p] = NoCall]
    /\ recs' = Collect(recs, ipLimiters, call')
    /\ lastActive' = [lastActive EXCEPT ![call[p].ip] =
                          IF ipLimiters[call[p].ip] # 0 THEN now ELSE -1]
    /\ UNCHANGED <<serverVars, handlerVars, now, cfg, syncerVars, auxVars, globalLimiter, ipLimiters, totalRequests,
                   spc, sweepNow, expiredIPs, nextSweep, ncalls>>

\* GetIPFrequency, lines 304-317, as a fraction
GetIPFrequency(ip) ==
    LET r == ipLimiters[ip]
    IN IF r = 0 THEN [n |-> 0, d |-> 1]
       ELSE IF now - recs[r].FirstRequest = 0 THEN [n |-> 0, d |-> 1]
       ELSE [n |-> recs[r].RequestCount,
             d |-> now - recs[r].FirstRequest]

----------------------------------------------------------------------------
(* CleanupExpiredLimiters, rate_limiter.go:205-235, run by the ticker of   *)
(* StartCleanupRoutine, lines 238-247, every CleanupInterval.              *)

\* A buggy variant: the subtraction is the wrong way round.
Expired_Reversed(info, t) == info.LastRequest - t > cfg.CleanupInterval

\* line 218
Expired(info, t) == t - info.LastRequest > cfg.CleanupInterval

\* lines 206-223: the Range pass that collects expiredIPs
SweepScan ==
    /\ spc = "idle"
    /\ now = nextSweep
    /\ sweepNow' = now
    /\ nextSweep' = now + cfg.CleanupInterval
    /\ LET found == {ip \in IPs : ipLimiters[ip] # 0
                                   /\ Expired(recs[ipLimiters[ip]], now)}
       IN /\ expiredIPs' = found
          /\ spc' = IF found = {} THEN "idle" ELSE "delete"
    /\ UNCHANGED <<serverVars, handlerVars, now, cfg, syncerVars, auxVars, globalLimiter, ipLimiters, recs, totalRequests,
                   lpc, call, ncalls, lastActive>>

\* lines 226-228: one pass of the delete loop
SweepDelete(ip) ==
    /\ spc = "delete"
    /\ ip \in expiredIPs
    /\ ipLimiters' = [ipLimiters EXCEPT ![ip] = 0]
    /\ expiredIPs' = expiredIPs \ {ip}
    /\ spc' = IF expiredIPs' = {} THEN "idle" ELSE "delete"
    /\ recs' = Collect(recs, ipLimiters', call)
    /\ lastActive' = [lastActive EXCEPT ![ip] = -1]
    /\ UNCHANGED <<serverVars, handlerVars, now, cfg, syncerVars, auxVars, globalLimiter, totalRequests, lpc, call,
                   sweepNow, nextSweep, ncalls>>

\* The clock.  The ticker fires on time and a sweep is short: the clock
\* does not pass a firing time before the sweep of that firing has begun,
\* and does not move while a sweep is under way.
Tick ==
    /\ now < MaxTime
    /\ now < nextSweep
    /\ spc = "idle"
    /\ now' = now + 1
    /\ globalLimiter' = Refill(globalLimiter)
    /\ recs' = [r \in RecIds |->
                   IF recs[r] = NoRec THEN NoRec
                   ELSE [recs[r] EXCEPT !.Limiter = Refill(@)]]
    /\ UNCHANGED <<serverVars, handlerVars, cfg, syncerVars, auxVars, ipLimiters, totalRequests, lpc, call,
                   spc, sweepNow, expiredIPs, nextSweep, ncalls, lastActive>>

----------------------------------------------------------------------------
(* The network Server.  A session is one accepted socket.  In the "net"    *)
(* build acceptConnections starts a goroutine per socket and the steps of  *)
(* handleConnection interleave freely; in the "netpoll" build onPrepare is *)
(* called by the poller that accepts, one socket after the other.  The     *)
(* rest (registration, close callback, reaper) is the same code in both.   *)

MaxServerTime == 2      \* the clock stops here in runs of the server

Sessions == {"s1", "s2", "s3"}

ServerConfigs ==
    { [MaxConnections |-> 1, IdleTimeout |-> 1],
      [MaxConnections |-> 2, IdleTimeout |-> 1] }

Builds == {"net", "netpoll"}

NoConn == [RemoteIP |-> "a", ID |-> <<>>, StartTime |-> 0]

\* fmt.Sprintf("%s-%d", remoteIP, time.Now().UnixNano())
NewConnID(ip, t) == <<ip, t>>

MapStore(m, id, s) == {e \in m : e[1] # id} \cup {<<id, s>>}
MapDelete(m, id) == {e \in m : e[1] # id}
MapKeys(m) == {e[1] : e \in m}

\* the keys the table can hold
ConnIDs == {NewConnID(ip, t) : ip \in IPs, t \in 0..MaxServerTime}

\* Sessions are interchangeable, and so are addresses: sessions are accepted
\* in the order s1, s2, s3 and the first comes from address "a".
Earlier(s) == {q \in Sessions : (q = "s1" /\ s # "s1") \/ (q = "s2" /\ s = "s3")}

\* a session that is inside the registration code
Preparing(s) == sst[s] \in {"check", "store", "add"}

\* listener.Accept returns a socket and `go s.handleConnection(conn)` runs
\* (net), or the poller accepts and calls onPrepare (netpoll)
Accept(s, ip) ==
    /\ sst[s] = "none"
    /\ \A q \in Earlier(s) : sst[q] # "none"
    /\ s = "s1" => ip = "a"
    /\ build = "netpoll" => \A q \in Sessions : ~Preparing(q)
    /\ life.listenerOpen
    /\ life.acceptor = "accepting"
    /\ sst' = [sst EXCEPT ![s] = "check"]
    /\ sconn' = [sconn EXCEPT ![s] = [NoConn EXCEPT !.RemoteIP = ip]]
    /\ sockOpen' = [sockOpen EXCEPT ![s] = TRUE]
    \* connection_manager.go:286-291: back at the head of the loop the
    \* accept loop sees the cancellation and returns
    /\ life' = IF build = "net" /\ life.cancelled
               THEN [life EXCEPT !.acceptor = "stopped"] ELSE life
    /\ UNCHANGED <<limiterVars, handlerVars, now, cfg, syncerVars, hl, tasks, codec, conf, cm, frl, scfg, build, connections, connCount,
                   rpc, rnow, rtodo, rdec>>

\* handleConnection lines 324-330 / onPrepare lines 438-444
CheckLimit(s) ==
    /\ sst[s] = "check"
    /\ IF connCount >= scfg.MaxConnections
       THEN /\ sockOpen' = [sockOpen EXCEPT ![s] = FALSE]
            /\ sst' = [sst EXCEPT ![s] = "rejected"]
            /\ sconn' = [sconn EXCEPT ![s] = NoConn]
       ELSE /\ sst' = [sst EXCEPT ![s] = "store"]
            /\ UNCHANGED <<sockOpen, sconn>>
    /\ UNCHANGED <<limiterVars, handlerVars, now, cfg, syncerVars, auxVars, scfg, build, connections,
                   connCount, rpc, rnow, rtodo, rdec>>

\* lines 344-359 / 458-478: build the Connection, s.connections.Store
StoreConn(s) ==
    /\ sst[s] = "store"
    /\ LET id == NewConnID(sconn[s].RemoteIP, now)
       IN /\ sconn' = [sconn EXCEPT ![s].ID = id, ![s].StartTime = now]
          /\ connections' = MapStore(connections, id, s)
    /\ sst' = [sst EXCEPT ![s] = "add"]
    /\ UNCHANGED <<limiterVars, handlerVars, now, cfg, syncerVars, auxVars, scfg, build, sockOpen, connCount,
                   rpc, rnow, rtodo, rdec>>

\* line 360 / 479: s.connCount.Add(1); the handler may run from here on
AddCount(s) ==
    /\ sst[s] = "add"
    /\ connCount' = connCount + 1
    /\ sst' = [sst EXCEPT ![s] = "handle"]
    /\ UNCHANGED <<limiterVars, handlerVars, now, cfg, syncerVars, auxVars, scfg, build, sconn, sockOpen,
                   connections, rpc, rnow, rtodo, rdec>>

\* HandleConnection has returned (net, lines 366-371), or the socket has
\* been closed and the close callback runs (netpoll, lines 473-476): the
\* session enters onConnectionClose
HandlerDone(s) ==
    /\ sst[s] = "handle"
    /\ build = "netpoll" => sockOpen' = [sockOpen EXCEPT ![s] = FALSE]
    /\ build = "net" => UNCHANGED sockOpen
    /\ sst' = [sst EXCEPT ![s] = "delete"]
    /\ UNCHANGED <<limiterVars, handlerVars, now, cfg, syncerVars, auxVars, scfg, build, sconn, connections,
                   connCount, rpc, rnow, rtodo, rdec>>

\* onConnectionClose: s.connections.Delete(conn.ID)
CloseDelete(s) ==
    /\ sst[s] = "delete"
    /\ connections' = MapDelete(connections, sconn[s].ID)
    /\ sst' = [sst EXCEPT ![s] = "dec"]
    /\ UNCHANGED <<limiterVars, handlerVars, now, cfg, syncerVars, auxVars, scfg, build, sconn, sockOpen,
                   connCount, rpc, rnow, rtodo, rdec>>

\* onConnectionClose: s.connCount.Add(-1)
CloseDec(s) ==
    /\ sst[s] = "dec"
    /\ connCount' = connCount - 1
    /\ sst' = [sst EXCEPT ![s] = "closed"]
    /\ sconn' = [sconn EXCEPT ![s] = NoConn]
    /\ UNCHANGED <<limiterVars, handlerVars, now, cfg, syncerVars, auxVars, scfg, build, sockOpen,
                   connections, rpc, rnow, rtodo, rdec>>

\* line 411 / 546: now.Sub(conn.StartTime) > maxIdleTime
ConnExpired(c, t) == t - c.StartTime > scfg.IdleTimeout

\* the entries of the table the reaper finds expired at time t
ExpiredKeys(t) == {e[1] : e \in {x \in connections : ConnExpired(sconn[x[2]], t)}}

\* cleanupExpiredConnections: the ticker has fired; Range begins.  The
\* callback does nothing on an entry that is not expired, so only the
\* expired ones are left to visit (a connection's StartTime never changes).
ReaperStart ==
    /\ rpc = "idle"
    /\ ExpiredKeys(now) # {}
    /\ rnow' = now
    /\ rtodo' = ExpiredKeys(now)
    /\ rpc' = "range"
    /\ UNCHANGED <<limiterVars, handlerVars, now, cfg, syncerVars, auxVars, scfg, build, sst, sconn, sockOpen,
                   connections, connCount, rdec>>

\* the Range callback on one entry: an expired connection is closed and
\* its entry deleted
ReaperVisit(id) ==
    /\ rpc = "range"
    /\ rdec = 0
    /\ id \in rtodo
    /\ rtodo' = rtodo \ {id}
    /\ LET hit == {e \in connections : e[1] = id /\ ConnExpired(sconn[e[2]], rnow)}
       IN IF hit # {}
          THEN /\ sockOpen' = [q \in Sessions |->
                                  IF q \in {e[2] : e \in hit} THEN FALSE ELSE sockOpen[q]]
               /\ connections' = MapDelete(connections, id)
               /\ rdec' = 1
          ELSE UNCHANGED <<sockOpen, connections, rdec>>
    /\ UNCHANGED <<limiterVars, handlerVars, now, cfg, syncerVars, auxVars, scfg, build, sst, sconn, connCount,
                   rpc, rnow>>

\* the Range callback: s.connCount.Add(-1)
ReaperDec ==
    /\ rpc = "range"
    /\ rdec = 1
    /\ rdec' = 0
    /\ connCount' = connCount - 1
    /\ UNCHANGED <<limiterVars, handlerVars, now, cfg, syncerVars, auxVars, scfg, build, sst, sconn, sockOpen,
                   connections, rpc, rnow, rtodo>>

\* Range returns
ReaperEnd ==
    /\ rpc = "range"
    /\ rdec = 0
    /\ rtodo = {}
    /\ rpc' = "idle"
    /\ rnow' = 0
    /\ UNCHANGED <<limiterVars, handlerVars, now, cfg, syncerVars, auxVars, scfg, build, sst, sconn, sockOpen,
                   connections, connCount, rtodo, rdec>>

ServerTick ==
    /\ now < MaxServerTime
    /\ now' = now + 1
    /\ UNCHANGED <<limiterVars, handlerVars, cfg, syncerVars, auxVars, serverVars>>

\* NewServer: empty table, zero counter
InitServerState ==
    /\ sst = [s \in Sessions |-> "none"]
    /\ sconn = [s \in Sessions |-> NoConn]
    /\ sockOpen = [s \in Sessions |-> FALSE]
    /\ connections = {}
    /\ connCount = 0
    /\ rpc = "idle"
    /\ rnow = 0
    /\ rtodo = {}
    /\ rdec = 0

----------------------------------------------------------------------------
(* The protocol handler (FastHandler) on one connection.  Frames are byte  *)
(* sequences; the handler sees what Read returns from the byte stream.     *)

MaxPacketSize == 512    \* interfaces.go
MaxStringLen == 128     \* interfaces.go
MaxFrames == 2          \* frames the peer sends on the connection
MaxOther == 1           \* requests of earlier connections from the same address

Pow2(n) == IF n = 0 THEN 1 ELSE
           IF n = 7 THEN 128 ELSE
           IF n = 14 THEN 16384 ELSE
           IF n = 21 THEN 2097152 ELSE 268435456

BadRead == [ok |-> FALSE, val |-> 0, next |-> 0]

\* the bits byte number `num` of a VarInt adds to the int32 value: seven
\* bits each, of the fifth byte the low four, the last of them the sign bit
VarIntGroup(b, num) ==
    IF num < 4 THEN (b % 128) * Pow2(7 * num)
    ELSE (b % 8) * Pow2(28) - (IF b % 16 >= 8 THEN 2147483647 ELSE 0)
                            - (IF b % 16 >= 8 THEN 1 ELSE 0)

\* packet.VarInt.ReadFrom: 7 bits per byte, low group first, at most 5 bytes
RECURSIVE VarIntFrom(_, _, _, _)
VarIntFrom(data, pos, num, acc) ==
    IF num >= 5 \/ pos > Len(data) THEN BadRead
    ELSE LET b == data[pos]
             v == VarIntGroup(b, num) + acc
         IN IF b >= 128 THEN VarIntFrom(data, pos + 1, num + 1, v)
            ELSE [ok |-> TRUE, val |-> v, next |-> pos + 1]

ReadVarInt(data, pos) == VarIntFrom(data, pos, 0, 0)

\* packet.String.ReadFrom: a VarInt length, then that many bytes
ReadString(data, pos) ==
    LET n == ReadVarInt(data, pos)
    IN IF ~n.ok \/ n.val < 0 \/ n.next + n.val - 1 > Len(data) THEN BadRead
       ELSE [ok |-> TRUE, val |-> SubSeq(data, n.next, n.next + n.val - 1),
             next |-> n.next + n.val]

\* packet.UnsignedShort.ReadFrom: two bytes, big-endian
ReadUnsignedShort(data, pos) ==
    IF pos + 1 > Len(data) THEN BadRead
    ELSE [ok |-> TRUE, val |-> data[pos] * 256 + data[pos + 1], next |-> pos + 2]

NoHandshake == [ok |-> FALSE, ProtocolVersion |-> 0, ServerAddress |-> <<>>,
                ServerPort |-> 0, NextState |-> 0]

\* part_004 lines 165-225
parseHandshakeFast(data) ==
    LET packetLen == ReadVarInt(data, 1)
        packetID == ReadVarInt(data, packetLen.next)
        protocol == ReadVarInt(data, packetID.next)
        address == ReadString(data, protocol.next)
        port == ReadUnsignedShort(data, address.next)
        intention == ReadVarInt(data, port.next)
    IN IF ~packetLen.ok THEN NoHandshake
       ELSE IF ~packetID.ok THEN NoHandshake
       ELSE IF ~protocol.ok THEN NoHandshake
       ELSE IF protocol.val < 47 \/ protocol.val > 1000 THEN NoHandshake
       ELSE IF ~address.ok THEN NoHandshake
       ELSE IF Len(address.val) > MaxStringLen THEN NoHandshake
       ELSE IF ~port.ok THEN NoHandshake
       ELSE IF ~intention.ok THEN NoHandshake
       ELSE IF intention.val # 1 /\ intention.val # 2 THEN NoHandshake
       ELSE [ok |-> TRUE, ProtocolVersion |-> protocol.val,
             ServerAddress |-> address.val, ServerPort |-> port.val,
             NextState |-> intention.val]

\* a check that wants at least two bytes
quickPreCheck_Min2(data) ==
    IF Len(data) > MaxPacketSize THEN "packet too large"
    ELSE IF Len(data) < 2 THEN "packet too small"
    ELSE ""

\* part_004 lines 151-162: "" when the check passes, else the reason
quickPreCheck(data) ==
    IF Len(data) > MaxPacketSize THEN "packet too large"
    ELSE IF Len(data) < 1 THEN "packet too small"
    ELSE ""

\* part_004 lines 92-148: the branch processPacketFast takes on `data`
Branch(data) ==
    IF quickPreCheck(data) # "" THEN "reject"
    ELSE IF Len(data) = 1 THEN "status"
    ELSE IF data[2] = 0
         THEN IF Len(data) >= 7 /\ parseHandshakeFast(data).ok
                 /\ parseHandshakeFast(data).NextState = 2
              THEN "login" ELSE "status"
    ELSE IF data[2] = 1 THEN "ping"
    ELSE "status"

\* a pong that always carries the pattern
PongPayload_Pattern(data) == <<0, 1, 2, 3, 4, 5, 6, 7>>

\* part_004 lines 347-357: the payload of the pong
PongPayload(data) ==
    IF Len(data) >= 10 THEN SubSeq(data, 3, 10) ELSE <<0, 1, 2, 3, 4, 5, 6, 7>>

\* an encoder that writes the groups high group first
RECURSIVE encodeVarInt_HighFirst(_)
encodeVarInt_HighFirst(value) ==
    IF value \div 128 # 0
    THEN encodeVarInt_HighFirst(value \div 128) \o <<value % 128>>
    ELSE <<value % 128>>

\* part_004 lines 385-399, for value >= 0: seven bits per byte, low group
\* first, the high bit set on every byte but the last
RECURSIVE encodeVarInt(_)
encodeVarInt(value) ==
    IF value \div 128 # 0
    THEN <<(value % 128) + 128>> \o encodeVarInt(value \div 128)
    ELSE <<value % 128>>

\* part_004 lines 359-367: the bytes of the pong
PongResponse(data) == encodeVarInt(1 + 8) \o <<1>> \o PongPayload(data)

\* ---- what a peer may send ----

\* handshake: protocol 47, address "h", port 25565, next state `next`
HandshakeFrame(next) == <<7, 0, 47, 1, 104, 99, 221, next>>
StatusRequestFrame == <<1, 0>>
PingFrame == <<9, 1, 10, 11, 12, 13, 14, 15, 16, 17>>
\* LoginStart of protocol 47 with the name "alice"
LoginStartFrame == <<7, 0, 5, 97, 108, 105, 99, 101>>
OneByteFrame == <<254>>
\* handshakes that parseHandshakeFast refuses: protocol 46, next state 3,
\* an address of MaxStringLen + 1 bytes
BadProtocolFrame == <<7, 0, 46, 1, 104, 99, 221, 1>>
BadIntentFrame == HandshakeFrame(3)
LongAddressFrame ==
    <<136, 1, 0, 47, 129, 1>> \o [i \in 1..(MaxStringLen + 1) |-> 104]
        \o <<99, 221, 1>>
\* a ping without its timestamp
ShortPingFrame == <<1, 1>>
\* a frame that declares 600 bytes (VarInt D8 04), sent in full
OversizeFrame == <<216, 4>> \o [i \in 1..600 |-> 0]
\* the same declaration with only two bytes of body
OversizeHead == <<216, 4, 0, 47>>

FrameNames == {"handshake_status", "handshake_login", "status_request", "ping",
               "login_start", "one_byte", "oversize", "oversize_head",
               "bad_protocol", "bad_intent", "long_address", "short_ping"}

\* the bytes of each frame
FrameBytes(f) ==
    CASE f = "handshake_status" -> HandshakeFrame(1)
      [] f = "handshake_login" -> HandshakeFrame(2)
      [] f = "status_request" -> StatusRequestFrame
      [] f = "ping" -> PingFrame
      [] f = "login_start" -> LoginStartFrame
      [] f = "one_byte" -> OneByteFrame
      [] f = "oversize" -> OversizeFrame
      [] f = "oversize_head" -> OversizeHead
      [] f = "bad_protocol" -> BadProtocolFrame
      [] f = "bad_intent" -> BadIntentFrame
      [] f = "long_address" -> LongAddressFrame
      [] f = "short_ping" -> ShortPingFrame

\* the connection the handler runs on, and its address
HSession == "s1"
HandlerIP == "a"

\* time.Duration.Milliseconds of a duration given in seconds
Milliseconds(d) == d * 1000

\* logger.HoneypotEvent (part_001 lines 19-33)
NoEvent == [EventType |-> "", ClientIP |-> HandlerIP, ProtocolVersion |-> 0,
            ServerAddress |-> <<>>, ServerPort |-> 0, NextState |-> 0,
            Username |-> <<>>, DelayApplied |-> 0, ErrorMessage |-> ""]

\* LogEvent (part_001 lines 94-113): nothing is written when disabled
LogEvent(log, e) == IF hpEnabled THEN Append(log, e) ELSE log

\* part_004 lines 105-127: the handshake event of a packet, if it has one
WithHandshakeEvent(log, data) ==
    IF Len(data) >= 7 /\ data[2] = 0 /\ parseHandshakeFast(data).ok
    THEN LET h == parseHandshakeFast(data)
         IN LogEvent(log, [NoEvent EXCEPT !.EventType = "handshake",
                               !.ProtocolVersion = h.ProtocolVersion,
                               !.ServerAddress = h.ServerAddress,
                               !.ServerPort = h.ServerPort,
                               !.NextState = h.NextState])
    ELSE log

\* ---- the limiter as the handler calls it (no other call interleaves) ----

RecOf(ip) == IF ipLimiters[ip] # 0 THEN ipLimiters[ip] ELSE NewRec
RecsWith(ip) ==
    IF ipLimiters[ip] # 0 THEN recs
    ELSE [recs EXCEPT ![NewRec] = NewIPLimiterInfo(now)]

\* an Allow that asks the per-IP bucket only
AllowResult_IPOnly(ip) == LimiterAllowOK(RecsWith(ip)[RecOf(ip)].Limiter)

\* the result of limiter.Allow(ip), rate_limiter.go lines 51-73
AllowResult(ip) ==
    /\ LimiterAllowOK(globalLimiter)
    /\ LimiterAllowOK(RecsWith(ip)[RecOf(ip)].Limiter)

\* the effect of limiter.Allow(ip)
AllowCall(ip) ==
    IF ~LimiterAllowOK(globalLimiter)
    THEN UNCHANGED <<globalLimiter, ipLimiters, recs, totalRequests>>
    ELSE /\ globalLimiter' = LimiterAllow(globalLimiter)
         /\ ipLimiters' = [ipLimiters EXCEPT ![ip] = RecOf(ip)]
         /\ IF AllowResult(ip)
            THEN /\ recs' = [RecsWith(ip) EXCEPT
                               ![RecOf(ip)].Limiter = LimiterAllow(@),
                               ![RecOf(ip)].RequestCount = @ + 1,
                               ![RecOf(ip)].LastRequest = now]
                 /\ totalRequests' = totalRequests + 1
            ELSE /\ recs' = RecsWith(ip)
                 /\ UNCHANGED totalRequests

\* the result of limiter.CalculateDelay(ip), rate_limiter.go lines 76-115
DelayResult(ip) == TotalDelay(RecsWith(ip)[RecOf(ip)], totalRequests, now)

\* the effect of limiter.CalculateDelay(ip): the record is created if absent
DelayCall(ip) ==
    /\ ipLimiters' = [ipLimiters EXCEPT ![ip] = RecOf(ip)]
    /\ recs' = RecsWith(ip)
    /\ UNCHANGED <<globalLimiter, totalRequests>>

\* ---- the peer, the rest of the server ----

limiterData == <<globalLimiter, ipLimiters, recs, totalRequests>>
limiterIdle == <<lpc, call, spc, sweepNow, expiredIPs, nextSweep, lastActive>>
serverRest == <<scfg, build, sst, sconn, connections, connCount,
                rpc, rnow, rtodo, rdec>>

PeerSend(f) ==
    /\ hpc # "returned"
    /\ ~peerClosed
    /\ Len(sent) < MaxFrames
    /\ inbuf' = inbuf \o FrameBytes(f)
    /\ sent' = Append(sent, f)
    /\ UNCHANGED <<now, cfg, syncerVars, auxVars, limiterVars, serverVars, hpc, peerClosed, written,
                   events, hdelay, loginDelay, herr, hpEnabled, paid>>

PeerClose ==
    /\ hpc # "returned"
    /\ ~peerClosed
    /\ peerClosed' = TRUE
    /\ UNCHANGED <<now, cfg, syncerVars, auxVars, limiterVars, serverVars, hpc, inbuf, sent, written,
                   events, hdelay, loginDelay, herr, hpEnabled, paid>>

\* the server closes the socket under the handler (reaper, shutdown)
LocalClose ==
    /\ hpc # "returned"
    /\ sockOpen[HSession]
    /\ sockOpen' = [sockOpen EXCEPT ![HSession] = FALSE]
    /\ UNCHANGED <<now, cfg, syncerVars, auxVars, limiterVars, serverRest, handlerVars>>

\* earlier connections from the same address have passed through the limiter
OtherAllowFrom(ip) ==
    /\ hpc = "start"
    /\ ncalls < MaxOther
    /\ ncalls' = ncalls + 1
    /\ AllowCall(ip)
    /\ UNCHANGED <<now, cfg, syncerVars, auxVars, limiterIdle, serverVars, handlerVars>>

OtherAllow == OtherAllowFrom(HandlerIP)

\* ---- HandleConnection, part_004 lines 43-89 ----

\* lines 46-50
HAllow ==
    /\ hpc = "start"
    /\ AllowCall(HandlerIP)
    /\ IF AllowResult(HandlerIP)
       THEN hpc' = "delay" /\ UNCHANGED herr
       ELSE hpc' = "returned" /\ herr' = "limited"
    /\ UNCHANGED <<now, cfg, syncerVars, auxVars, limiterIdle, ncalls, serverVars, inbuf, sent,
                   peerClosed, written, events, hdelay, loginDelay, hpEnabled, paid>>

\* lines 52-54
HCalcDelay ==
    /\ hpc = "delay"
    /\ DelayCall(HandlerIP)
    /\ hdelay' = DelayResult(HandlerIP)
    /\ hpc' = IF hdelay' > 0 THEN "sleep" ELSE "read"
    /\ UNCHANGED <<now, cfg, syncerVars, auxVars, limiterIdle, ncalls, serverVars, inbuf, sent,
                   peerClosed, written, events, loginDelay, herr, hpEnabled, paid>>

\* lines 55-60: time.After(delay) fires
HWake ==
    /\ hpc = "sleep"
    /\ hpc' = "read"
    /\ paid' = Append(paid, "admission")
    /\ UNCHANGED <<now, cfg, syncerVars, auxVars, limiterVars, serverVars, inbuf, sent, peerClosed,
                   written, events, hdelay, loginDelay, herr, hpEnabled>>

\* lines 55-60: ctx.Done() is closed and the select takes that case
HCancelled ==
    /\ hpc = "sleep"
    /\ life.cancelled
    /\ hpc' = "returned"
    /\ herr' = "canceled"
    /\ UNCHANGED <<now, cfg, syncerVars, auxVars, limiterVars, serverVars, inbuf, sent, peerClosed,
                   written, events, hdelay, loginDelay, hpEnabled, paid>>

\* lines 69-76: Read fails (end of stream, read deadline, closed socket)
\* and the loop ends
HReadEnd ==
    /\ hpc = "read"
    /\ inbuf = <<>> \/ ~sockOpen[HSession]
    /\ hpc' = "returned"
    /\ herr' = "nil"
    /\ UNCHANGED <<now, cfg, syncerVars, auxVars, limiterVars, serverVars, inbuf, sent, peerClosed,
                   written, events, hdelay, loginDelay, hpEnabled, paid>>

\* lines 69-85 with processPacketFast (92-148): Read returns what has
\* arrived, at most len(buffer) bytes, and the packet is processed up to its
\* write.  `ok` is whether that write succeeds; it can fail once the peer
\* has closed.
HProcess(ok) ==
    /\ hpc = "read"
    /\ sockOpen[HSession]
    /\ inbuf # <<>>
    /\ LET n == Min(MaxPacketSize, Len(inbuf))
           data == SubSeq(inbuf, 1, n)
           branch == Branch(data)
       IN /\ inbuf' = SubSeq(inbuf, n + 1, Len(inbuf))
          /\ ok = FALSE => (peerClosed /\ branch \in {"status", "ping"})
          /\ CASE branch = "reject" ->
                    \* rejectSilently, lines 282-296
                    /\ events' = LogEvent(events,
                           [NoEvent EXCEPT !.EventType = "protocol_violation",
                                           !.ErrorMessage = quickPreCheck(data)])
                    /\ hpc' = "returned"
                    /\ herr' = "rejected"
                    /\ UNCHANGED <<written, loginDelay, limiterData>>
               [] branch = "login" ->
                    \* lines 119-131 and handleLoginFast lines 230-233
                    /\ events' = WithHandshakeEvent(events, data)
                    /\ DelayCall(HandlerIP)
                    /\ loginDelay' = DelayResult(HandlerIP)
                    /\ hpc' = "login_sleep"
                    /\ UNCHANGED <<written, herr>>
               [] branch \in {"status", "ping"} ->
                    \* handleStatusRequestFast lines 299-329,
                    \* handlePingRequestFast lines 340-382
                    /\ events' = WithHandshakeEvent(events, data)
                    /\ IF ok
                       THEN /\ written' = Append(written,
                                   IF branch = "ping"
                                   THEN [kind |-> "pong", payload |-> PongResponse(data)]
                                   ELSE [kind |-> "status", payload |-> <<>>])
                            /\ UNCHANGED <<hpc, herr>>
                       ELSE /\ hpc' = "returned"
                            /\ herr' = "write failed"
                            /\ UNCHANGED written
                    /\ UNCHANGED <<loginDelay, limiterData>>
    /\ UNCHANGED <<now, cfg, syncerVars, auxVars, limiterIdle, ncalls, serverVars, sent, peerClosed,
                   hdelay, hpEnabled, paid>>

\* A buggy variant: the login attempt is logged before the write is tried.
HLoginWrite_LogFirst(ok) ==
    /\ hpc = "login_sleep"
    /\ ok = TRUE => sockOpen[HSession]
    /\ ok = FALSE => (peerClosed \/ ~sockOpen[HSession])
    /\ events' = LogEvent(events,
           [NoEvent EXCEPT !.EventType = "login_attempt",
                           !.Username = <<>>,
                           !.DelayApplied = Milliseconds(loginDelay)])
    /\ IF ok
       THEN /\ written' = Append(written, [kind |-> "disconnect", payload |-> <<>>])
            /\ hpc' = "read"
            /\ UNCHANGED herr
       ELSE /\ hpc' = "returned"
            /\ herr' = "write failed"
            /\ UNCHANGED written
    /\ paid' = Append(paid, "login")
    /\ UNCHANGED <<now, cfg, syncerVars, auxVars, limiterVars, serverVars, inbuf, sent, peerClosed,
                   hdelay, loginDelay, hpEnabled>>

\* handleLoginFast lines 235-259: the sleep is over; write the disconnect,
\* then log the login attempt
HLoginWrite(ok) ==
    /\ hpc = "login_sleep"
    /\ ok = TRUE => sockOpen[HSession]
    /\ ok = FALSE => (peerClosed \/ ~sockOpen[HSession])
    /\ IF ok
       THEN /\ written' = Append(written, [kind |-> "disconnect", payload |-> <<>>])
            /\ events' = LogEvent(events,
                   [NoEvent EXCEPT !.EventType = "login_attempt",
                                   !.Username = <<>>,
                                   !.DelayApplied = Milliseconds(loginDelay)])
            /\ hpc' = "read"
            /\ UNCHANGED herr
       ELSE /\ hpc' = "returned"
            /\ herr' = "write failed"
            /\ UNCHANGED <<written, events>>
    /\ paid' = Append(paid, "login")
    /\ UNCHANGED <<now, cfg, syncerVars, auxVars, limiterVars, serverVars, inbuf, sent, peerClosed,
                   hdelay, loginDelay, hpEnabled>>

\* Time passes.  The handler reads the clock in its calls of the limiter
\* only, so it is enough to let time pass before the handler starts and
\* while it sleeps.
HTick ==
    /\ hpc \in {"start", "sleep", "login_sleep"}
    /\ Tick

\* a handler about to run on a registered connection
InitHandlerState ==
    /\ hpc = "start"
    /\ inbuf = <<>>
    /\ sent = <<>>
    /\ peerClosed = FALSE
    /\ written = <<>>
    /\ events = <<>>
    /\ hdelay = 0
    /\ loginDelay = 0
    /\ herr = ""
    /\ paid = <<>>

----------------------------------------------------------------------------
(* UpstreamSyncer, sync/upstream.go.  A status payload is a byte slice; the *)
(* model keeps what the code can tell about it: whether it is empty,       *)
(* whether it parses as a JSON object, the object's version and players    *)
(* members, its other members taken together, and whether the bytes are    *)
(* the upstream server's own or the output of sonic.Marshal.               *)

MaxPolls == 3           \* calls of syncOnce in one run

Readers == {"r1", "r2"} \* concurrent callers of GetRawResponse

\* config.Messages
Messages == [VersionName |-> "X", ProtocolVersion |-> 42, MaxPlayers |-> 100,
             OnlinePlayers |-> 5, MOTD |-> "decoy"]

UpstreamConfigs == [OverrideVersion : BOOLEAN, RetryCount : {0, 1}]

NoVersion == [present |-> FALSE, name |-> "", protocol |-> 0]
NoPlayers == [present |-> FALSE, max |-> 0, online |-> 0]

JSONObject(version, players, rest, form) ==
    [kind |-> "object", version |-> version, players |-> players,
     rest |-> rest, form |-> form]

\* the nil slice a failed conversion returns; only a payload of kind
\* "object" has members
Nil == [kind |-> "nil"]

\* what the upstream server may answer: two well-formed status payloads, a
\* JSON object without version and players, bytes that are not JSON, and
\* no bytes at all
UpGood == JSONObject([present |-> TRUE, name |-> "1.20.6", protocol |-> 766],
                     [present |-> TRUE, max |-> 100, online |-> 7], "Hi", "raw")
UpBusy == JSONObject([present |-> TRUE, name |-> "1.20.6", protocol |-> 766],
                     [present |-> TRUE, max |-> 100, online |-> 9], "Hi", "raw")
UpBare == JSONObject(NoVersion, NoPlayers, "bare", "raw")
UpGarbage == [kind |-> "garbage"]
UpEmpty == [kind |-> "empty"]

UpstreamPayloads == {UpGood, UpBusy, UpBare, UpGarbage, UpEmpty}

\* len(b) > 0
NonEmpty(b) == b.kind # "empty"

\* sonic.Unmarshal(b, &serverInfo) succeeds
Parses(b) == b.kind = "object"

\* lines 43-69
createDefaultResponse ==
    JSONObject([present |-> TRUE, name |-> Messages.VersionName,
                protocol |-> Messages.ProtocolVersion],
               [present |-> TRUE, max |-> Messages.MaxPlayers,
                online |-> Messages.OnlinePlayers],
               Messages.MOTD, "marshal")

\* an override that leaves the version as it is
overrideVersionInfo_Keep(upstreamResp) ==
    IF ~Parses(upstreamResp) THEN Nil
    ELSE [upstreamResp EXCEPT !.form = "marshal"]

\* lines 256-288: the version member is replaced, or added when absent,
\* and the object is serialised again
overrideVersionInfo(upstreamResp) ==
    IF ~Parses(upstreamResp) THEN Nil
    ELSE [upstreamResp EXCEPT
             !.version = [present |-> TRUE, name |-> Messages.VersionName,
                          protocol |-> Messages.ProtocolVersion],
             !.form = "marshal"]

\* lines 291-311: players.online becomes 0 when there is a players object,
\* and the object is serialised again
createOfflineResponse(cachedResp) ==
    IF ~Parses(cachedResp) THEN Nil
    ELSE [cachedResp EXCEPT
             !.players = IF @.present THEN [@ EXCEPT !.online = 0] ELSE @,
             !.form = "marshal"]

\* an update that always overrides
updateValue_Always(r) ==
    IF overrideVersionInfo(r) # Nil THEN overrideVersionInfo(r) ELSE r

\* updateState lines 202-218: what is cached for the payload `r`
updateValue(r) ==
    IF ucfg.OverrideVersion
    THEN IF overrideVersionInfo(r) # Nil THEN overrideVersionInfo(r) ELSE r
    ELSE r

\* updateStateOffline lines 238-249: what is cached when the cache holds `c`
offlineValue(c) ==
    IF NonEmpty(c)
    THEN IF createOfflineResponse(c) # Nil THEN createOfflineResponse(c) ELSE c
    ELSE createDefaultResponse

\* A slice header: the data pointer and the length are separate words.  The
\* length is recorded as the payload it is the length of; two payloads are
\* taken to differ in length.
Slice(b) == [data |-> b, lenOf |-> b]

\* the value of a slice header: the payload, when pointer and length agree
Complete(h) == h.data = h.lenOf

\* ---- us.mu, a sync.RWMutex ----

\* a reader that does not wait for the writer
CanRLock_NoWait == TRUE

\* RLock returns when no writer holds the mutex
CanRLock == ~mu.writer

\* Lock returns when nobody holds the mutex
CanLock == ~mu.writer /\ mu.readers = {}

otherVars == <<now, cfg, limiterVars, serverVars, handlerVars, auxVars>>

\* ---- syncOnce, lines 120-171, called by Start and by the ticker of syncLoop ----

\* how the last call of syncOnce ended: what it received, and whether it
\* ended an outage (the unavailable flag was set when it succeeded)
NoPoll == [ended |-> "none", received |-> Nil, recovered |-> FALSE]

\* lines 121-133: resolveAddress cannot fail; attempt := 0
PollStart ==
    /\ ppc = "idle"
    /\ polls < MaxPolls
    /\ polls' = polls + 1
    /\ attempt' = 0
    /\ ppc' = "ping"
    /\ UNCHANGED <<otherVars, ucfg, cachedResponse, upstreamUnavailable, mu,
                   resp, lastPoll, gpc, got, assigned>>

\* lines 142, 152-153: pingServer returns the payload b
PingOK(b) ==
    /\ ppc = "ping"
    /\ resp' = b
    /\ ppc' = "update_lock"
    /\ UNCHANGED <<otherVars, ucfg, cachedResponse, upstreamUnavailable, mu,
                   attempt, polls, lastPoll, gpc, got, assigned>>

\* lines 142-150, 133, 163-170: pingServer fails; the next attempt follows
\* while attempt <= RetryCount, else updateStateOffline
PingFail ==
    /\ ppc = "ping"
    /\ attempt' = attempt + 1
    /\ ppc' = IF attempt' <= ucfg.RetryCount THEN "ping" ELSE "offline_lock"
    /\ UNCHANGED <<otherVars, ucfg, cachedResponse, upstreamUnavailable, mu,
                   resp, polls, lastPoll, gpc, got, assigned>>

\* ---- updateState, lines 197-224 ----

\* line 198
UpdateLock ==
    /\ ppc = "update_lock"
    /\ CanLock
    /\ mu' = [mu EXCEPT !.writer = TRUE]
    /\ ppc' = "update_data"
    /\ UNCHANGED <<otherVars, ucfg, cachedResponse, upstreamUnavailable,
                   attempt, resp, polls, lastPoll, gpc, got, assigned>>

\* lines 202-218, the assignment of the slice: first word
UpdateData ==
    /\ ppc = "update_data"
    /\ cachedResponse' = [cachedResponse EXCEPT !.data = updateValue(resp)]
    /\ ppc' = "update_len"
    /\ UNCHANGED <<otherVars, ucfg, upstreamUnavailable, mu, attempt, resp,
                   polls, lastPoll, gpc, got, assigned>>

\* the assignment of the slice: second word
UpdateLen ==
    /\ ppc = "update_len"
    /\ cachedResponse' = [cachedResponse EXCEPT !.lenOf = cachedResponse.data]
    /\ assigned' = assigned \cup {cachedResponse'}
    /\ ppc' = "update_flag"
    /\ UNCHANGED <<otherVars, ucfg, upstreamUnavailable, mu, attempt, resp,
                   polls, lastPoll, gpc, got>>

\* line 221 and the deferred Unlock; syncOnce returns
UpdateFlag ==
    /\ ppc = "update_flag"
    /\ upstreamUnavailable' = FALSE
    /\ mu' = [mu EXCEPT !.writer = FALSE]
    /\ lastPoll' = [ended |-> "ok", received |-> resp,
                     recovered |-> upstreamUnavailable]
    /\ ppc' = "idle"
    /\ UNCHANGED <<otherVars, ucfg, cachedResponse, attempt, resp, polls,
                   gpc, got, assigned>>

\* ---- updateStateOffline, lines 227-253 ----

\* lines 228-235: with the flag set the call returns at once
OfflineLock ==
    /\ ppc = "offline_lock"
    /\ CanLock
    /\ IF upstreamUnavailable
       THEN /\ ppc' = "idle"
            /\ lastPoll' = [ended |-> "failed", received |-> Nil,
                             recovered |-> FALSE]
            /\ UNCHANGED mu
       ELSE /\ mu' = [mu EXCEPT !.writer = TRUE]
            /\ ppc' = "offline_data"
            /\ UNCHANGED lastPoll
    /\ UNCHANGED <<otherVars, ucfg, cachedResponse, upstreamUnavailable,
                   attempt, resp, polls, gpc, got, assigned>>

\* lines 238-249, the assignment of the slice: first word
OfflineData ==
    /\ ppc = "offline_data"
    /\ cachedResponse' =
           [cachedResponse EXCEPT !.data = offlineValue(cachedResponse.data)]
    /\ ppc' = "offline_len"
    /\ UNCHANGED <<otherVars, ucfg, upstreamUnavailable, mu, attempt, resp,
                   polls, lastPoll, gpc, got, assigned>>

\* the assignment of the slice: second word
OfflineLen ==
    /\ ppc = "offline_len"
    /\ cachedResponse' = [cachedResponse EXCEPT !.lenOf = cachedResponse.data]
    /\ assigned' = assigned \cup {cachedResponse'}
    /\ ppc' = "offline_flag"
    /\ UNCHANGED <<otherVars, ucfg, upstreamUnavailable, mu, attempt, resp,
                   polls, lastPoll, gpc, got>>

\* line 252 and the deferred Unlock; syncOnce returns
OfflineFlag ==
    /\ ppc = "offline_flag"
    /\ upstreamUnavailable' = TRUE
    /\ mu' = [mu EXCEPT !.writer = FALSE]
    /\ lastPoll' = [ended |-> "failed", received |-> Nil,
                             recovered |-> FALSE]
    /\ ppc' = "idle"
    /\ UNCHANGED <<otherVars, ucfg, cachedResponse, attempt, resp, polls,
                   gpc, got, assigned>>

\* ---- GetRawResponse, lines 98-102 ----

\* Callers are interchangeable: r2 begins a call only while r1 is in one.
GetRLock(r) ==
    /\ gpc[r] = "idle"
    /\ r = "r2" => gpc["r1"] # "idle"
    /\ CanRLock
    /\ mu' = [mu EXCEPT !.readers = @ \cup {r}]
    /\ gpc' = [gpc EXCEPT ![r] = "data"]
    /\ UNCHANGED <<otherVars, ucfg, cachedResponse, upstreamUnavailable,
                   ppc, attempt, resp, polls, lastPoll, got, assigned>>

\* line 101, the copy of the slice header: first word
GetData(r) ==
    /\ gpc[r] = "data"
    /\ got' = [got EXCEPT ![r].data = cachedResponse.data]
    /\ gpc' = [gpc EXCEPT ![r] = "len"]
    /\ UNCHANGED <<otherVars, ucfg, cachedResponse, upstreamUnavailable, mu,
                   ppc, attempt, resp, polls, lastPoll, assigned>>

\* the copy of the slice header: second word; the deferred RUnlock
GetLen(r) ==
    /\ gpc[r] = "len"
    /\ got' = [got EXCEPT ![r].lenOf = cachedResponse.lenOf]
    /\ mu' = [mu EXCEPT !.readers = @ \ {r}]
    /\ gpc' = [gpc EXCEPT ![r] = "done"]
    /\ UNCHANGED <<otherVars, ucfg, cachedResponse, upstreamUnavailable,
                   ppc, attempt, resp, polls, lastPoll, assigned>>

\* the caller has used the payload and may call again
GetAgain(r) ==
    /\ gpc[r] = "done"
    /\ gpc' = [gpc EXCEPT ![r] = "idle"]
    /\ got' = [got EXCEPT ![r] = Slice(Nil)]
    /\ UNCHANGED <<otherVars, ucfg, cachedResponse, upstreamUnavailable, mu,
                   ppc, attempt, resp, polls, lastPoll, assigned>>

\* NewUpstreamSyncer, lines 28-40
InitSyncerState ==
    /\ cachedResponse = Slice(createDefaultResponse)
    /\ upstreamUnavailable = FALSE
    /\ mu = [writer |-> FALSE, readers |-> {}]
    /\ ppc = "idle"
    /\ attempt = 0
    /\ resp = Nil
    /\ polls = 0
    /\ lastPoll = NoPoll
    /\ gpc = [r \in Readers |-> "idle"]
    /\ got = [r \in Readers |-> Slice(Nil)]
    /\ assigned = {Slice(createDefaultResponse)}

\* the syncer at rest, as the other subsystems see it
SyncerAtRest ==
    /\ ucfg = [OverrideVersion |-> FALSE, RetryCount |-> 0]
    /\ InitSyncerState

----------------------------------------------------------------------------
(* HoneypotLogger in CSV mode, logger/honeypot.go.  The logger writes      *)
(* through an encoding/csv Writer into a lumberjack.Logger, which appends  *)
(* to the file at FilePath and rotates it by size.  A field is a sequence  *)
(* of tokens: the separator, the quote, or text without either; a line is  *)
(* the tokens csv.Writer.Write emits for a record.  File sizes are counted *)
(* in lines.                                                               *)

MaxFileLines == 5       \* config MaxSize, in lines
MaxLogEvents == 5       \* events logged in one run of the model
MaxStarts == 2          \* times the process is started

Comma == ","
Quote == "\""

\* writeCSVHeader, lines 83-91
CSVHeaders ==
    << <<"timestamp">>, <<"client_ip">>, <<"event_type">>,
       <<"protocol_version">>, <<"server_address">>, <<"server_port">>,
       <<"next_state">>, <<"username">>, <<"delay_applied_ms">>,
       <<"ip_frequency">>, <<"error_message">>, <<"user_agent">>,
       <<"geo_location">> >>

\* server addresses a peer may send: plain, with a separator, with a quote
ServerAddresses == { <<"mc">>, <<"mc", Comma, "x">>, <<Quote, "mc">> }

\* writeCSV lines 128-142: the record of a handshake event
CSVRecord(addr) ==
    << <<"2026-01-01T00:00:00Z">>, <<"10.0.0.1">>, <<"handshake">>,
       <<"47">>, addr, <<"25565">>, <<"1">>, <<>>, <<"0">>, <<"0.00">>,
       <<>>, <<>>, <<>> >>

\* encoding/csv: a field is quoted when it holds the separator or a quote
fieldNeedsQuotes(f) == \E i \in 1..Len(f) : f[i] \in {Comma, Quote}

RECURSIVE escapeQuotes(_)
escapeQuotes(f) ==
    IF f = <<>> THEN <<>>
    ELSE (IF Head(f) = Quote THEN <<Quote, Quote>> ELSE <<Head(f)>>)
             \o escapeQuotes(Tail(f))

writeField(f) ==
    IF fieldNeedsQuotes(f) THEN <<Quote>> \o escapeQuotes(f) \o <<Quote>>
    ELSE f

\* csv.Writer.Write: the fields, separated, as one line
RECURSIVE csvWrite(_)
csvWrite(record) ==
    IF Len(record) = 1 THEN writeField(record[1])
    ELSE writeField(Head(record)) \o <<Comma>> \o csvWrite(Tail(record))

\* the number of separators of a line that stand outside quotes
RECURSIVE separatorsOutside(_, _)
separatorsOutside(line, quoted) ==
    IF line = <<>> THEN 0
    ELSE (IF Head(line) = Comma /\ ~quoted THEN 1 ELSE 0)
         + separatorsOutside(Tail(line),
                             IF Head(line) = Quote THEN ~quoted ELSE quoted)

\* the number of fields a CSV reader finds in a line
FieldCount(line) == 1 + separatorsOutside(line, FALSE)

HeaderLine == csvWrite(CSVHeaders)

\* lumberjack.Logger.Write(p) on the file `disk`: a file that is not yet
\* open is opened for appending, or rotated away when the write would
\* fill it (openExistingOrNew); an open file is rotated when the write
\* would overflow it; then p is appended.  A rotation leaves an empty file.
lumberjackWrite(disk, isOpen, p) ==
    LET opened == IF isOpen \/ Len(disk) + Len(p) < MaxFileLines
                  THEN disk ELSE <<>>
        current == IF Len(opened) + Len(p) > MaxFileLines THEN <<>>
                   ELSE opened
    IN current \o p

\* no process is running and there is no file yet
NoLogger == [run |-> "down", buf |-> <<>>, fileOpen |-> FALSE,
             disk |-> <<>>, nevents |-> 0, nstarts |-> 0]

logUnchanged == <<now, cfg, limiterVars, serverVars, handlerVars, syncerVars,
                 life, tasks, codec, conf, cm, frl>>

\* NewHoneypotLogger, lines 45-80: the header goes into the csv writer's
\* buffer; the file is not touched yet
NewHoneypotLogger ==
    /\ hl.run = "down"
    /\ hl.nstarts < MaxStarts
    /\ hl' = [hl EXCEPT !.run = "up", !.buf = <<HeaderLine>>,
                        !.fileOpen = FALSE, !.nstarts = @ + 1]
    /\ UNCHANGED logUnchanged

\* LogEvent and writeCSV, lines 94-151, under hl.mutex: the record is
\* written to the buffer and the buffer is flushed to the file
LogEventCSV(addr) ==
    /\ hl.run = "up"
    /\ hl.nevents < MaxLogEvents
    /\ LET p == Append(hl.buf, csvWrite(CSVRecord(addr)))
       IN hl' = [hl EXCEPT !.buf = <<>>, !.fileOpen = TRUE,
                           !.disk = lumberjackWrite(hl.disk, hl.fileOpen, p),
                           !.nevents = @ + 1]
    /\ UNCHANGED logUnchanged

\* Close, lines 206-224: the buffer is flushed, the file is closed
CloseLogger ==
    /\ hl.run = "up"
    /\ hl' = [hl EXCEPT !.run = "down", !.buf = <<>>, !.fileOpen = FALSE,
                        !.disk = IF hl.buf = <<>> THEN @
                                 ELSE lumberjackWrite(@, hl.fileOpen, hl.buf)]
    /\ UNCHANGED logUnchanged

\* the process is killed: what was buffered is lost
KillLogger ==
    /\ hl.run = "up"
    /\ hl' = [hl EXCEPT !.run = "down", !.buf = <<>>, !.fileOpen = FALSE]
    /\ UNCHANGED logUnchanged

----------------------------------------------------------------------------
(* HoneypotLogger shared by the sessions: LogEvent (part_001:94-113) with   *)
(* writeCSV (126-151) and Close (207-224), one action per step of a call.   *)
(* csv.Writer.Write puts the fields of a record into the buffer of the csv  *)
(* writer one after the other, here in two parts; Flush hands the buffer    *)
(* to the file writer in one Write.                                         *)

MaxWrites == 2          \* calls of LogEvent by each session

Writers == {"w1", "w2"} \* sessions that log
Closer == "closer"      \* the caller of Close
LogCallers == Writers \cup {Closer}

\* a logger in use: `pc` is where each caller is, `ret` what its last call
\* returned, `buf` the buffer of the csv writer and `out` what the file
\* writer has received, both as parts <<caller, part number>>
SharedLogger(e) ==
    [enabled |-> e, mutex |-> "free",
     pc |-> [w \in LogCallers |-> "idle"],
     ret |-> [w \in LogCallers |-> "none"],
     calls |-> [w \in LogCallers |-> 0],
     buf |-> <<>>, out |-> <<>>]

\* the callers between Lock and Unlock
InFlight == {w \in LogCallers : hl.pc[w] \in {"part1", "part2", "flush", "unlock"}}

\* lines 95-97 and 208-210: the call begins; a disabled logger returns nil
LogEnter(w) ==
    /\ hl.pc[w] = "idle"
    /\ hl.calls[w] < (IF w = Closer THEN 1 ELSE MaxWrites)
    /\ hl' = IF hl.enabled
             THEN [hl EXCEPT !.pc[w] = "lock", !.calls[w] = @ + 1,
                             !.ret[w] = "none"]
             ELSE [hl EXCEPT !.calls[w] = @ + 1, !.ret[w] = "nil"]
    /\ UNCHANGED logUnchanged

\* A buggy variant: the call goes on without waiting for the mutex.
LogLock_NoMutex(w) ==
    /\ hl.pc[w] = "lock"
    /\ hl' = [hl EXCEPT !.mutex = w,
                        !.pc[w] = IF w = Closer THEN "flush" ELSE "part1"]
    /\ UNCHANGED logUnchanged

\* lines 99 and 212: hl.mutex.Lock()
LogLock(w) ==
    /\ hl.pc[w] = "lock"
    /\ hl.mutex = "free"
    /\ hl' = [hl EXCEPT !.mutex = w,
                        !.pc[w] = IF w = Closer THEN "flush" ELSE "part1"]
    /\ UNCHANGED logUnchanged

\* writeCSV line 144, csvWriter.Write: the first fields reach the buffer
LogPart1(w) ==
    /\ hl.pc[w] = "part1"
    /\ hl' = [hl EXCEPT !.buf = Append(@, <<w, 1>>), !.pc[w] = "part2"]
    /\ UNCHANGED logUnchanged

\* csvWriter.Write: the remaining fields and the line end reach the buffer
LogPart2(w) ==
    /\ hl.pc[w] = "part2"
    /\ hl' = [hl EXCEPT !.buf = Append(@, <<w, 2>>), !.pc[w] = "flush"]
    /\ UNCHANGED logUnchanged

\* writeCSV lines 149-150 and Close lines 215-221: Flush writes the buffer
\* to the file writer (Close then closes the file)
LogFlush(w) ==
    /\ hl.pc[w] = "flush"
    /\ hl' = [hl EXCEPT !.out = @ \o hl.buf, !.buf = <<>>, !.pc[w] = "unlock"]
    /\ UNCHANGED logUnchanged

\* the deferred hl.mutex.Unlock(); the call returns
LogUnlock(w) ==
    /\ hl.pc[w] = "unlock"
    /\ hl' = [hl EXCEPT !.mutex = "free", !.pc[w] = "idle", !.ret[w] = "nil"]
    /\ UNCHANGED logUnchanged

----------------------------------------------------------------------------
(* Shutdown of the Server: lifecycleManager and the accept loop,           *)
(* connection_manager.go:258-319 and config.go:408-433.                    *)

\* the server after Start: no cancellation yet, the listener open, the
\* accept loop inside Accept, lifecycleManager waiting on ctx.Done()
ServerRunning == [cancelled |-> FALSE, running |-> TRUE, listenerOpen |-> TRUE,
                  pc |-> "wait", todo |-> {}, seen |-> {},
                  acceptor |-> "accepting"]

lifeUnchanged == <<now, cfg, limiterVars, handlerVars, syncerVars, hl, tasks,
                  codec, conf, cm, frl>>

\* the outer lifecycle cancels s.ctx
Cancel ==
    /\ ~life.cancelled
    /\ life' = [life EXCEPT !.cancelled = TRUE]
    /\ UNCHANGED <<lifeUnchanged, serverVars>>

\* lines 259-267 / 409-417: <-s.ctx.Done() returns, running is cleared and
\* the Range over s.connections begins
LifeWake ==
    /\ life.pc = "wait"
    /\ life.cancelled
    /\ life' = [life EXCEPT !.running = FALSE, !.pc = "range",
                            !.todo = MapKeys(connections)]
    /\ UNCHANGED <<lifeUnchanged, serverVars>>

\* lines 267-272 / 417-422, the Range callback on one entry: conn.Close().
\* Range visits no key twice; an entry stored while it runs may be visited
\* or not, an entry deleted while it runs is not visited.
LifeVisit(id) ==
    /\ life.pc = "range"
    /\ id \in (life.todo \cup MapKeys(connections)) \ life.seen
    /\ life' = [life EXCEPT !.seen = @ \cup {id}]
    /\ sockOpen' = [q \in Sessions |->
                       IF <<id, q>> \in connections THEN FALSE ELSE sockOpen[q]]
    /\ UNCHANGED <<lifeUnchanged, scfg, build, sst, sconn, connections,
                   connCount, rpc, rnow, rtodo, rdec>>

\* Range returns once it has been through the entries it started with
LifeRangeEnd ==
    /\ life.pc = "range"
    /\ life.todo \subseteq life.seen
    /\ life' = [life EXCEPT !.pc = "close", !.todo = {}, !.seen = {}]
    /\ UNCHANGED <<lifeUnchanged, serverVars>>

\* lines 275-281: s.listener.Close() (net); lines 425-432:
\* s.eventLoop.Shutdown, which ends the accepting poller (netpoll)
LifeCloseListener ==
    /\ life.pc = "close"
    /\ life' = [life EXCEPT !.pc = "done", !.listenerOpen = FALSE,
                   !.acceptor = IF build = "netpoll" THEN "stopped" ELSE @]
    /\ UNCHANGED <<lifeUnchanged, serverVars>>

\* acceptConnections lines 286-297 (net): the loop finds running cleared or
\* ctx.Done() closed at its head, or Accept fails on the closed listener
AcceptorStop ==
    /\ build = "net"
    /\ life.acceptor = "accepting"
    /\ life.cancelled
    /\ life' = [life EXCEPT !.acceptor = "stopped"]
    /\ UNCHANGED <<lifeUnchanged, serverVars>>

----------------------------------------------------------------------------
(* The loops of the long-lived tasks and the cancellation signal:          *)
(* syncLoop (upstream.go:72-171), StartCleanupRoutine                      *)
(* (rate_limiter.go:238-247), cleanupConnections                           *)
(* (connection_manager.go:390-403, config.go:525-537).  Only the control   *)
(* flow of each loop is kept; what an iteration does to the data is in the *)
(* sections above.                                                         *)

\* after main has started the tasks: Start is inside its first syncOnce,
\* the two tickers have not fired
TasksStarted == [poller |-> "ping", attempt |-> 0, sweeper |-> "wait",
                 reaper |-> "select"]

taskUnchanged == <<now, cfg, limiterVars, serverVars, handlerVars, syncerVars,
                   hl, codec, conf, cm, frl>>

\* syncLoop lines 109-115: the select takes the ticker; syncOnce begins
PollerTicker ==
    /\ tasks.poller = "select"
    /\ tasks' = [tasks EXCEPT !.poller = "ping", !.attempt = 0]
    /\ UNCHANGED <<taskUnchanged, life>>

\* syncLoop lines 110-112: the select takes ctx.Done(); the loop returns
PollerStop ==
    /\ tasks.poller = "select"
    /\ life.cancelled
    /\ tasks' = [tasks EXCEPT !.poller = "stopped"]
    /\ UNCHANGED <<taskUnchanged, life>>

\* syncOnce lines 142-161: pingServer succeeds, the cache is updated, the
\* call returns to the loop
PollerPingOK ==
    /\ tasks.poller = "ping"
    /\ tasks' = [tasks EXCEPT !.poller = "select", !.attempt = 0]
    /\ UNCHANGED <<taskUnchanged, life>>

\* syncOnce lines 133-150, 163-170: pingServer fails (at the latest when its
\* timeout expires); another attempt follows after the retry wait, or the
\* call gives up and returns to the loop
PollerPingFail ==
    /\ tasks.poller = "ping"
    /\ tasks' = IF tasks.attempt + 1 <= ucfg.RetryCount
                THEN [tasks EXCEPT !.poller = "sleep", !.attempt = @ + 1]
                ELSE [tasks EXCEPT !.poller = "select", !.attempt = 0]
    /\ UNCHANGED <<taskUnchanged, life>>

\* syncOnce line 139: time.Sleep(RetryInterval) returns
PollerSleepEnd ==
    /\ tasks.poller = "sleep"
    /\ tasks' = [tasks EXCEPT !.poller = "ping"]
    /\ UNCHANGED <<taskUnchanged, life>>

\* StartCleanupRoutine line 243: `for range ticker.C` receives a tick
SweeperTick ==
    /\ tasks.sweeper = "wait"
    /\ tasks' = [tasks EXCEPT !.sweeper = "sweep"]
    /\ UNCHANGED <<taskUnchanged, life>>

\* line 244: CleanupExpiredLimiters returns; the loop waits for the next tick
SweeperSwept ==
    /\ tasks.sweeper = "sweep"
    /\ tasks' = [tasks EXCEPT !.sweeper = "wait"]
    /\ UNCHANGED <<taskUnchanged, life>>

\* cleanupConnections lines 394-401: the select takes the ticker
ReaperTicker ==
    /\ tasks.reaper = "select"
    /\ tasks' = [tasks EXCEPT !.reaper = "clean"]
    /\ UNCHANGED <<taskUnchanged, life>>

\* cleanupExpiredConnections returns
ReaperCleaned ==
    /\ tasks.reaper = "clean"
    /\ tasks' = [tasks EXCEPT !.reaper = "select"]
    /\ UNCHANGED <<taskUnchanged, life>>

\* lines 396-397: the select takes s.ctx.Done(); the loop returns
ReaperStop ==
    /\ tasks.reaper = "select"
    /\ life.cancelled
    /\ tasks' = [tasks EXCEPT !.reaper = "stopped"]
    /\ UNCHANGED <<taskUnchanged, life>>

\* acceptConnections lines 293-297: Accept fails on the closed listener and
\* the loop returns
AcceptFails ==
    /\ build = "net"
    /\ life.acceptor = "accepting"
    /\ ~life.listenerOpen
    /\ life' = [life EXCEPT !.acceptor = "stopped"]
    /\ UNCHANGED <<lifeUnchanged, serverVars>>

----------------------------------------------------------------------------
(* The VarInt codec: FastHandler.encodeVarInt (part_004:385-399) writes    *)
(* the lengths of the frames the handler sends, packet.VarInt.ReadFrom     *)
(* reads the fields of the frames it receives (part_004:168-211).          *)

MaxVarIntValue == 100000    \* interfaces.go

\* no value has been encoded
NoCodec == [stage |-> "input", v |-> 0, out |-> <<>>, dec |-> BadRead]

codecUnchanged == <<now, cfg, limiterVars, serverVars, handlerVars, syncerVars,
                    hl, life, tasks, conf, cm, frl>>

\* encodeVarInt(v)
VarIntEncode ==
    /\ codec.stage = "input"
    /\ codec' = [codec EXCEPT !.stage = "encoded", !.out = encodeVarInt(codec.v)]
    /\ UNCHANGED codecUnchanged

\* packet.VarInt.ReadFrom on the encoded bytes
VarIntDecode ==
    /\ codec.stage = "encoded"
    /\ codec' = [codec EXCEPT !.stage = "decoded", !.dec = ReadVarInt(codec.out, 1)]
    /\ UNCHANGED codecUnchanged

----------------------------------------------------------------------------
(* config.Load, config.go:116-256: the file is parsed, setDefaults fills   *)
(* the options that are zero, validate checks the result.  The options     *)
(* kept are those validate looks at and those whose defaults the tests     *)
(* name.  Durations are in milliseconds, the float64 factors in tenths.    *)

\* what yaml.Unmarshal leaves of a file that sets nothing
EmptyConfig == [Host |-> "", Port |-> 0, MaxConnections |-> 0, IPLimit |-> 0,
                GlobalLimit |-> 0, BaseDelay |-> 0, IPFrequencyFactor |-> 0,
                GlobalLoadFactor |-> 0, ProtocolVersion |-> 0]

\* the configurations a file may hold
FileConfigs ==
    [Host : {"", "127.0.0.1"},
     Port : {-1, 0, 1, 25566, 65535, 65536, 70000},
     MaxConnections : {-1, 0, 1000},
     IPLimit : {-1, 0, 10},
     GlobalLimit : {-1, 0, 200},
     BaseDelay : {0, 200},
     IPFrequencyFactor : {-5, 0, 15},
     GlobalLoadFactor : {-5, 0, 12},
     ProtocolVersion : {-1, 0, 766}]

\* setDefaults, lines 137-221
setDefaults(c) ==
    [Host |-> IF c.Host = "" THEN "0.0.0.0" ELSE c.Host,
     Port |-> IF c.Port = 0 THEN 25565 ELSE c.Port,
     MaxConnections |-> IF c.MaxConnections = 0 THEN 10000 ELSE c.MaxConnections,
     IPLimit |-> IF c.IPLimit = 0 THEN 5 ELSE c.IPLimit,
     GlobalLimit |-> IF c.GlobalLimit = 0 THEN 100 ELSE c.GlobalLimit,
     BaseDelay |-> IF c.BaseDelay = 0 THEN 100 ELSE c.BaseDelay,
     IPFrequencyFactor |-> IF c.IPFrequencyFactor = 0 THEN 15
                           ELSE c.IPFrequencyFactor,
     GlobalLoadFactor |-> IF c.GlobalLoadFactor = 0 THEN 12
                          ELSE c.GlobalLoadFactor,
     ProtocolVersion |-> IF c.ProtocolVersion = 0 THEN 766
                         ELSE c.ProtocolVersion]

\* a validation without the upper limit of the port
validate_NoUpperPort(c) ==
    IF c.Port < 1 THEN "port"
    ELSE IF c.MaxConnections < 1 THEN "max_connections"
    ELSE IF c.IPLimit < 1 THEN "ip_limit"
    ELSE IF c.GlobalLimit < 1 THEN "global_limit"
    ELSE IF c.IPFrequencyFactor <= 0 THEN "ip_frequency_factor"
    ELSE IF c.GlobalLoadFactor <= 0 THEN "global_load_factor"
    ELSE IF c.ProtocolVersion < 1 THEN "protocol_version"
    ELSE "nil"

\* validate, lines 224-254: the first failing check names the error
validate(c) ==
    IF c.Port < 1 \/ c.Port > 65535 THEN "port"
    ELSE IF c.MaxConnections < 1 THEN "max_connections"
    ELSE IF c.IPLimit < 1 THEN "ip_limit"
    ELSE IF c.GlobalLimit < 1 THEN "global_limit"
    ELSE IF c.IPFrequencyFactor <= 0 THEN "ip_frequency_factor"
    ELSE IF c.GlobalLoadFactor <= 0 THEN "global_load_factor"
    ELSE IF c.ProtocolVersion < 1 THEN "protocol_version"
    ELSE "nil"

\* nothing has been loaded
NoConf == [stage |-> "file", raw |-> EmptyConfig, c |-> EmptyConfig,
           err |-> "nil"]

confUnchanged == <<now, cfg, limiterVars, serverVars, handlerVars, syncerVars,
                   hl, life, tasks, codec, cm, frl>>

\* Load lines 117-128: the file has been parsed; setDefaults
LoadDefaults ==
    /\ conf.stage = "file"
    /\ conf' = [conf EXCEPT !.stage = "defaulted", !.c = setDefaults(conf.raw)]
    /\ UNCHANGED confUnchanged

\* Load lines 130-135: validate; the configuration or the error is returned
LoadValidate ==
    /\ conf.stage = "defaulted"
    /\ conf' = [conf EXCEPT !.err = validate(conf.c),
                            !.stage = IF validate(conf.c) = "nil" THEN "loaded"
                                      ELSE "failed"]
    /\ UNCHANGED confUnchanged

\* validate called on a configuration as it is (part_005 lines 131-138)
ValidateDirect ==
    /\ conf.stage = "file"
    /\ conf' = [conf EXCEPT !.stage = "validated", !.c = conf.raw,
                            !.err = validate(conf.raw)]
    /\ UNCHANGED confUnchanged

----------------------------------------------------------------------------
(* ConnectionManager, connection_manager.go:9-122: the connections in      *)
(* shards, each under its own lock, and the atomic cm.count.  What a call  *)
(* does under a shard's lock is one step.                                  *)

MaxCMCalls == 3         \* calls of Store and Delete in one run

CMIds == {"x", "y"}     \* connection identifiers
CMCallers == {"c1", "c2"}
\* getShard, lines 50-53: the shard of an identifier (two shards)
ShardOf(id) == IF id = "x" THEN 1 ELSE 2
LastShard == 2

\* NewConnectionManager, lines 23-47.  A connection in a shard is "fresh" or
\* "old" (started more than maxIdleTime ago); `clean` is the call of
\* CleanupExpired: its position, the shard it is at, its local `cleaned`.
NewCM == [conns |-> [id \in CMIds |-> "absent"], count |-> 0,
          pc |-> [c \in CMCallers |-> "idle"], calls |-> 0,
          clean |-> [pc |-> "idle", shard |-> 1, cleaned |-> 0]]

cmUnchanged == <<now, cfg, limiterVars, serverVars, handlerVars, syncerVars,
                 hl, life, tasks, codec, conf, frl>>

\* the connections held in the shards
CMHeld(m) == {id \in CMIds : m.conns[id] # "absent"}

\* Store, lines 57-60: the map write under the shard's lock
CMStorePut(c, id, age) ==
    /\ cm.pc[c] = "idle"
    /\ cm.calls < MaxCMCalls
    /\ cm' = [cm EXCEPT !.conns[id] = age, !.pc[c] = "add", !.calls = @ + 1]
    /\ UNCHANGED cmUnchanged

\* Store, line 61: cm.count.Add(1)
CMStoreAdd(c) ==
    /\ cm.pc[c] = "add"
    /\ cm' = [cm EXCEPT !.count = @ + 1, !.pc[c] = "idle"]
    /\ UNCHANGED cmUnchanged

\* Delete, lines 74-82, all of it under the shard's lock
CMDelete(c, id) ==
    /\ cm.pc[c] = "idle"
    /\ cm.calls < MaxCMCalls
    /\ cm' = IF cm.conns[id] # "absent"
             THEN [cm EXCEPT !.conns[id] = "absent", !.count = @ - 1,
                             !.calls = @ + 1]
             ELSE [cm EXCEPT !.calls = @ + 1]
    /\ UNCHANGED cmUnchanged

\* CleanupExpired, lines 105-107
CMCleanStart ==
    /\ cm.clean.pc = "idle"
    /\ \E id \in CMIds : cm.conns[id] = "old"
    /\ cm' = [cm EXCEPT !.clean = [pc |-> "shard", shard |-> 1, cleaned |-> 0]]
    /\ UNCHANGED cmUnchanged

\* lines 108-118: one shard, under its lock
CMCleanShard ==
    /\ cm.clean.pc = "shard"
    /\ LET k == cm.clean.shard
           gone == {id \in CMIds : ShardOf(id) = k /\ cm.conns[id] = "old"}
       IN cm' = [cm EXCEPT
                    !.conns = [id \in CMIds |->
                                 IF id \in gone THEN "absent" ELSE cm.conns[id]],
                    !.clean.cleaned = @ + Cardinality(gone),
                    !.clean.shard = IF k = LastShard THEN 1 ELSE k + 1,
                    !.clean.pc = IF k = LastShard THEN "add" ELSE "shard"]
    /\ UNCHANGED cmUnchanged

\* lines 120-121: cm.count.Add(-cleaned)
CMCleanAdd ==
    /\ cm.clean.pc = "add"
    /\ cm' = [cm EXCEPT !.count = @ - cm.clean.cleaned,
                        !.clean = [pc |-> "idle", shard |-> 1, cleaned |-> 0]]
    /\ UNCHANGED cmUnchanged

----------------------------------------------------------------------------
(* FastRateLimiter, fast_limiter.go: Allow (42-69) and Reset (118-128),    *)
(* one step per atomic operation.  The per-IP limiter of an address is     *)
(* its count (0 when the table has no entry).                              *)

MaxFastCalls == 4       \* calls of Allow in one run
MaxResets == 2          \* calls of Reset in one run

FastCallers == {"f1", "f2"}

\* NewFastRateLimiter, lines 31-39.  `passed` counts the calls that have
\* passed the global check since globalCount was last reset.
NewFRL == [globalCount |-> 0, ipCount |-> [ip \in IPs |-> 0],
           pc |-> [c \in FastCallers |-> "idle"],
           ip |-> [c \in FastCallers |-> "a"],
           ret |-> [c \in FastCallers |-> "none"],
           rpc |-> "idle", calls |-> 0, resets |-> 0, passed |-> 0]

frlUnchanged == <<now, cfg, limiterVars, serverVars, handlerVars, syncerVars,
                  hl, life, tasks, codec, conf, cm>>

\* lines 44-45: globalCount.Add(1) and the comparison with GlobalLimit
FastAllowAdd(c, ip) ==
    /\ frl.pc[c] = "idle"
    /\ frl.calls < MaxFastCalls
    /\ LET globalCount == frl.globalCount + 1
       IN frl' = IF globalCount > cfg.GlobalLimit
                 THEN [frl EXCEPT !.globalCount = globalCount, !.pc[c] = "undo",
                                  !.ip[c] = ip, !.calls = @ + 1,
                                  !.ret[c] = "none"]
                 ELSE [frl EXCEPT !.globalCount = globalCount, !.pc[c] = "ip",
                                  !.ip[c] = ip, !.calls = @ + 1,
                                  !.ret[c] = "none", !.passed = @ + 1]
    /\ UNCHANGED frlUnchanged

\* lines 46-47: globalCount.Add(-1); return false
FastAllowUndo(c) ==
    /\ frl.pc[c] = "undo"
    /\ frl' = [frl EXCEPT !.globalCount = @ - 1, !.pc[c] = "idle",
                          !.ret[c] = "false"]
    /\ UNCHANGED frlUnchanged

\* lines 50-68: LoadOrStore, limiter.count.Add(1), the comparison with
\* IPLimit
FastAllowIP(c) ==
    /\ frl.pc[c] = "ip"
    /\ LET ipCount == frl.ipCount[frl.ip[c]] + 1
       IN frl' = [frl EXCEPT !.ipCount[frl.ip[c]] = ipCount, !.pc[c] = "idle",
                     !.ret[c] = IF ipCount > cfg.IPLimit THEN "false"
                                ELSE "true"]
    /\ UNCHANGED frlUnchanged

\* Reset, line 120: globalCount.Store(0)
FastResetGlobal ==
    /\ frl.rpc = "idle"
    /\ frl.resets < MaxResets
    /\ frl' = [frl EXCEPT !.globalCount = 0, !.rpc = "range",
                          !.resets = @ + 1, !.passed = 0]
    /\ UNCHANGED frlUnchanged

\* Reset, lines 123-127: the Range that zeroes the per-IP counts
FastResetIPs ==
    /\ frl.rpc = "range"
    /\ frl' = [frl EXCEPT !.ipCount = [ip \in IPs |-> 0], !.rpc = "idle"]
    /\ UNCHANGED frlUnchanged

\* the state of these sections as the other subsystems see it
RestAtRest ==
    /\ hl = NoLogger /\ life = ServerRunning /\ tasks = TasksStarted
    /\ cm = NewCM /\ frl = NewFRL

AuxAtRest == RestAtRest /\ codec = NoCodec /\ conf = NoConf

----------------------------------------------------------------------------
vars == <<now, cfg, limiterVars, serverVars, handlerVars, syncerVars, auxVars>>

\* NewRateLimiter, lines 38-48
InitLimiterState(c) ==
    /\ globalLimiter = NewLimiter(c.GlobalLimit)
    /\ ipLimiters = [ip \in IPs |-> 0]
    /\ recs = [r \in RecIds |-> NoRec]
    /\ totalRequests = 0
    /\ lpc = [p \in Procs |-> "idle"]
    /\ call = [p \in Procs |-> NoCall]
    /\ spc = "idle"
    /\ sweepNow = -1
    /\ expiredIPs = {}
    /\ nextSweep = c.CleanupInterval
    /\ ncalls = 0
    /\ lastActive = [ip \in IPs |-> -1]

InitLimiter ==
    /\ now = 0
    /\ cfg \in LimiterConfigs
    /\ InitLimiterState(cfg)
    /\ scfg \in {c \in ServerConfigs : c.MaxConnections = 1}
    /\ build = "net"
    /\ InitServerState
    /\ InitHandlerState
    /\ hpEnabled = TRUE
    /\ SyncerAtRest
    /\ AuxAtRest

NextLimiter ==
    \/ \E p \in Procs, ip \in IPs : AllowGlobal(p, ip)
    \/ \E p \in Procs : LookupLoad(p)
    \/ \E p \in Procs : LookupStore(p)
    \/ \E p \in Procs : AllowIP(p)
    \/ \E p \in Procs : UpdateStats(p)
    \/ \E p \in Procs, ip \in IPs : DelayStart(p, ip)
    \/ \E p \in Procs : DelayCompute(p)
    \/ \E p \in Procs : Return(p)
    \/ SweepScan
    \/ \E ip \in IPs : SweepDelete(ip)
    \/ Tick

SpecLimiter == InitLimiter /\ [][NextLimiter]_vars

InitServer ==
    /\ now = 0
    /\ cfg = TightIPConfig
    /\ InitLimiterState(cfg)
    /\ scfg \in ServerConfigs
    /\ build \in Builds
    /\ InitServerState
    /\ InitHandlerState
    /\ hpEnabled = TRUE
    /\ SyncerAtRest
    /\ AuxAtRest

NextServer ==
    \/ \E s \in Sessions, ip \in IPs : Accept(s, ip)
    \/ \E s \in Sessions : CheckLimit(s)
    \/ \E s \in Sessions : StoreConn(s)
    \/ \E s \in Sessions : AddCount(s)
    \/ \E s \in Sessions : HandlerDone(s)
    \/ \E s \in Sessions : CloseDelete(s)
    \/ \E s \in Sessions : CloseDec(s)
    \/ ReaperStart
    \/ \E id \in ConnIDs : ReaperVisit(id)
    \/ ReaperDec
    \/ ReaperEnd
    \/ ServerTick

SpecServer == InitServer /\ [][NextServer]_vars

\* the server under cancellation, while the clock stands still
InitShutdown ==
    /\ now = 0
    /\ cfg = TightIPConfig
    /\ InitLimiterState(cfg)
    /\ scfg \in ServerConfigs
    /\ build \in Builds
    /\ InitServerState
    /\ InitHandlerState
    /\ hpEnabled = TRUE
    /\ SyncerAtRest
    /\ AuxAtRest

NextShutdown ==
    \/ \E s \in Sessions, ip \in IPs : Accept(s, ip)
    \/ \E s \in Sessions : CheckLimit(s)
    \/ \E s \in Sessions : StoreConn(s)
    \/ \E s \in Sessions : AddCount(s)
    \/ \E s \in Sessions : HandlerDone(s)
    \/ \E s \in Sessions : CloseDelete(s)
    \/ \E s \in Sessions : CloseDec(s)
    \/ Cancel
    \/ LifeWake
    \/ \E id \in ConnIDs : LifeVisit(id)
    \/ LifeRangeEnd
    \/ LifeCloseListener
    \/ AcceptorStop

SpecShutdown == InitShutdown /\ [][NextShutdown]_vars

\* the tasks main starts, with no session connected
InitTasks ==
    /\ now = 0
    /\ cfg = TightIPConfig
    /\ InitLimiterState(cfg)
    /\ scfg \in ServerConfigs
    /\ build \in Builds
    /\ InitServerState
    /\ InitHandlerState
    /\ hpEnabled = TRUE
    /\ ucfg \in UpstreamConfigs
    /\ InitSyncerState
    /\ AuxAtRest

NextTasks ==
    \/ Cancel
    \/ LifeWake
    \/ LifeRangeEnd
    \/ LifeCloseListener
    \/ AcceptFails
    \/ PollerTicker
    \/ PollerStop
    \/ PollerPingOK
    \/ PollerPingFail
    \/ PollerSleepEnd
    \/ SweeperTick
    \/ SweeperSwept
    \/ ReaperTicker
    \/ ReaperCleaned
    \/ ReaperStop

\* Every task that can take a step eventually takes one.  A select with
\* several ready cases picks one at random, so a case that is ready at
\* every visit of the select is eventually taken: strong fairness for the
\* ctx.Done() cases.
FairTasks ==
    /\ WF_vars(LifeWake) /\ WF_vars(LifeRangeEnd) /\ WF_vars(LifeCloseListener)
    /\ WF_vars(AcceptFails)
    /\ WF_vars(PollerPingOK \/ PollerPingFail) /\ WF_vars(PollerSleepEnd)
    /\ WF_vars(SweeperSwept) /\ WF_vars(ReaperCleaned)
    /\ SF_vars(PollerStop) /\ SF_vars(ReaperStop)

SpecTasks == InitTasks /\ [][NextTasks]_vars /\ FairTasks

\* every value up to MaxVarIntValue, to be encoded and read back
InitCodec ==
    /\ now = 0
    /\ cfg = TightIPConfig
    /\ InitLimiterState(cfg)
    /\ scfg \in {c \in ServerConfigs : c.MaxConnections = 1}
    /\ build = "net"
    /\ InitServerState
    /\ InitHandlerState
    /\ hpEnabled = TRUE
    /\ SyncerAtRest
    /\ RestAtRest
    /\ conf = NoConf
    /\ codec \in {[NoCodec EXCEPT !.v = v] : v \in 0..MaxVarIntValue}

NextCodec ==
    \/ VarIntEncode
    \/ VarIntDecode

SpecCodec == InitCodec /\ [][NextCodec]_vars

\* every configuration file, to be loaded or validated as it is
InitConfig ==
    /\ now = 0
    /\ cfg = TightIPConfig
    /\ InitLimiterState(cfg)
    /\ scfg \in {c \in ServerConfigs : c.MaxConnections = 1}
    /\ build = "net"
    /\ InitServerState
    /\ InitHandlerState
    /\ hpEnabled = TRUE
    /\ SyncerAtRest
    /\ RestAtRest
    /\ codec = NoCodec
    /\ conf \in {[NoConf EXCEPT !.raw = r] : r \in FileConfigs}

NextConfig ==
    \/ LoadDefaults
    \/ LoadValidate
    \/ ValidateDirect

SpecConfig == InitConfig /\ [][NextConfig]_vars

\* the connection of the handler is registered, as after AddCount, and the
\* handler is about to run
RegisteredSession ==
    /\ scfg \in {c \in ServerConfigs : c.MaxConnections = 1}
    /\ build = "net"
    /\ sst = [s \in Sessions |-> IF s = HSession THEN "handle" ELSE "none"]
    /\ sconn = [s \in Sessions |->
                  IF s = HSession
                  THEN [RemoteIP |-> HandlerIP, ID |-> NewConnID(HandlerIP, 0),
                        StartTime |-> 0]
                  ELSE NoConn]
    /\ sockOpen = [s \in Sessions |-> s = HSession]
    /\ connections = {<<NewConnID(HandlerIP, 0), HSession>>}
    /\ connCount = 1
    /\ rpc = "idle"
    /\ rnow = 0
    /\ rtodo = {}
    /\ rdec = 0
    /\ InitHandlerState
    /\ hpEnabled = TRUE
    /\ SyncerAtRest
    /\ AuxAtRest

InitHandler ==
    /\ now = 0
    /\ cfg = TightIPConfig
    /\ InitLimiterState(cfg)
    /\ RegisteredSession

NextHandler ==
    \/ \E f \in FrameNames : PeerSend(f)
    \/ PeerClose
    \/ LocalClose
    \/ OtherAllow
    \/ HAllow
    \/ HCalcDelay
    \/ HWake
    \/ HReadEnd
    \/ \E ok \in BOOLEAN : HProcess(ok)
    \/ \E ok \in BOOLEAN : HLoginWrite(ok)
    \/ HTick

SpecHandler == InitHandler /\ [][NextHandler]_vars

\* The handler on a connection whose context is cancelled at some moment;
\* the peer sends handshakes.
NextCancel ==
    \/ \E f \in {"handshake_status", "handshake_login"} : PeerSend(f)
    \/ PeerClose
    \/ LocalClose
    \/ Cancel
    \/ HAllow
    \/ HCalcDelay
    \/ HWake
    \/ HCancelled
    \/ HReadEnd
    \/ \E ok \in BOOLEAN : HProcess(ok)
    \/ \E ok \in BOOLEAN : HLoginWrite(ok)
    \/ HTick

SpecCancel == InitHandler /\ [][NextCancel]_vars

\* The handler under either limiter configuration, with earlier traffic
\* from any address; the peer sends handshakes.
AdmissionFrames == {"handshake_status", "handshake_login"}

InitAdmission ==
    /\ now = 0
    /\ cfg \in LimiterConfigs
    /\ InitLimiterState(cfg)
    /\ RegisteredSession

NextAdmission ==
    \/ \E f \in AdmissionFrames : PeerSend(f)
    \/ PeerClose
    \/ LocalClose
    \/ \E ip \in IPs : OtherAllowFrom(ip)
    \/ HAllow
    \/ HCalcDelay
    \/ HWake
    \/ HReadEnd
    \/ \E ok \in BOOLEAN : HProcess(ok)
    \/ \E ok \in BOOLEAN : HLoginWrite(ok)
    \/ HTick

SpecAdmission == InitAdmission /\ [][NextAdmission]_vars

InitSyncer ==
    /\ now = 0
    /\ cfg = TightIPConfig
    /\ InitLimiterState(cfg)
    /\ scfg \in {c \in ServerConfigs : c.MaxConnections = 1}
    /\ build = "net"
    /\ InitServerState
    /\ InitHandlerState
    /\ hpEnabled = TRUE
    /\ ucfg \in UpstreamConfigs
    /\ InitSyncerState
    /\ AuxAtRest

NextSyncer ==
    \/ PollStart
    \/ \E b \in UpstreamPayloads : PingOK(b)
    \/ PingFail
    \/ UpdateLock
    \/ UpdateData
    \/ UpdateLen
    \/ UpdateFlag
    \/ OfflineLock
    \/ OfflineData
    \/ OfflineLen
    \/ OfflineFlag
    \/ \E r \in Readers : GetRLock(r)
    \/ \E r \in Readers : GetData(r)
    \/ \E r \in Readers : GetLen(r)
    \/ \E r \in Readers : GetAgain(r)

SpecSyncer == InitSyncer /\ [][NextSyncer]_vars

InitLogger ==
    /\ now = 0
    /\ cfg = TightIPConfig
    /\ InitLimiterState(cfg)
    /\ scfg \in {c \in ServerConfigs : c.MaxConnections = 1}
    /\ build = "net"
    /\ InitServerState
    /\ InitHandlerState
    /\ hpEnabled = TRUE
    /\ SyncerAtRest
    /\ AuxAtRest

NextLogger ==
    \/ NewHoneypotLogger
    \/ \E addr \in ServerAddresses : LogEventCSV(addr)
    \/ CloseLogger
    \/ KillLogger

SpecLogger == InitLogger /\ [][NextLogger]_vars

\* a logger, enabled or not, shared by the sessions and the caller of Close
InitWriters ==
    /\ now = 0
    /\ cfg = TightIPConfig
    /\ InitLimiterState(cfg)
    /\ scfg \in {c \in ServerConfigs : c.MaxConnections = 1}
    /\ build = "net"
    /\ InitServerState
    /\ InitHandlerState
    /\ hpEnabled = TRUE
    /\ SyncerAtRest
    /\ hl \in {SharedLogger(e) : e \in BOOLEAN}
    /\ life = ServerRunning
    /\ tasks = TasksStarted
    /\ codec = NoCodec
    /\ conf = NoConf
    /\ cm = NewCM
    /\ frl = NewFRL

NextWriters ==
    \/ \E w \in LogCallers : LogEnter(w)
    \/ \E w \in LogCallers : LogLock(w)
    \/ \E w \in Writers : LogPart1(w)
    \/ \E w \in Writers : LogPart2(w)
    \/ \E w \in LogCallers : LogFlush(w)
    \/ \E w \in LogCallers : LogUnlock(w)

SpecWriters == InitWriters /\ [][NextWriters]_vars

\* a ConnectionManager, its callers and its cleaner
InitConnMgr ==
    /\ now = 0
    /\ cfg = TightIPConfig
    /\ InitLimiterState(cfg)
    /\ scfg \in {c \in ServerConfigs : c.MaxConnections = 1}
    /\ build = "net"
    /\ InitServerState
    /\ InitHandlerState
    /\ hpEnabled = TRUE
    /\ SyncerAtRest
    /\ AuxAtRest

NextConnMgr ==
    \/ \E c \in CMCallers, id \in CMIds, age \in {"fresh", "old"} :
           CMStorePut(c, id, age)
    \/ \E c \in CMCallers : CMStoreAdd(c)
    \/ \E c \in CMCallers, id \in CMIds : CMDelete(c, id)
    \/ CMCleanStart
    \/ CMCleanShard
    \/ CMCleanAdd

SpecConnMgr == InitConnMgr /\ [][NextConnMgr]_vars

\* a FastRateLimiter under either limiter configuration
InitFast ==
    /\ now = 0
    /\ cfg \in LimiterConfigs
    /\ InitLimiterState(cfg)
    /\ scfg \in {c \in ServerConfigs : c.MaxConnections = 1}
    /\ build = "net"
    /\ InitServerState
    /\ InitHandlerState
    /\ hpEnabled = TRUE
    /\ SyncerAtRest
    /\ AuxAtRest

NextFast ==
    \/ \E c \in FastCallers, ip \in IPs : FastAllowAdd(c, ip)
    \/ \E c \in FastCallers : FastAllowUndo(c)
    \/ \E c \in FastCallers : FastAllowIP(c)
    \/ FastResetGlobal
    \/ FastResetIPs

SpecFast == InitFast /\ [][NextFast]_vars

----------------------------------------------------------------------------
(* Claims about the rate limiter, checked under SpecLimiter *)

\* C2: every call of Allow that admits took exactly one token from the
\* global bucket and exactly one from the bucket of its address, the global
\* one first and the per-IP one second.
C2_AdmitTakesGlobalThenIP ==
    \A p \in Procs :
        call[p].result = "admit" =>
            /\ call[p].took = <<"global", "ip">>
            /\ call[p].gTaken = 1
            /\ call[p].ipTaken = 1

C2_Witness == \E p \in Procs : lpc[p] = "done" /\ call[p].result = "admit"

\* C3: the step in which the per-IP bucket refuses a call leaves the global
\* bucket as it is: the token the call took from it (exactly one) stays
\* spent.
C3_DenyIPKeepsGlobalToken ==
    [][\A p \in Procs :
          (lpc[p] = "ip" /\ call'[p].result = "deny_ip") =>
              /\ globalLimiter' = globalLimiter
              /\ call'[p].took = <<"global">>
              /\ call'[p].gTaken = 1]_vars

C3_Witness == \E p \in Procs : lpc[p] = "done" /\ call[p].result = "deny_ip"

\* C4: the sweeper removes a table entry only if the record's last-seen time
\* is more than cleanup_interval before now, also when an Allow for the
\* address is admitted between the sweeper's scan and its delete.
C4_SweeperDeletesOnlyIdle ==
    [][\A ip \in IPs :
          (ipLimiters[ip] # 0 /\ ipLimiters'[ip] = 0) =>
              now - recs[ipLimiters[ip]].LastRequest > cfg.CleanupInterval]_vars

\* no call for address ip is under way
Quiet(ip) == \A p \in Procs : lpc[p] = "idle" \/ call[p].ip # ip

\* C5 as stated: once cleanup_interval has passed with no activity from an
\* address, the table has no entry for it (and so GetIPFrequency is 0).
C5_IdleAddressHasNoEntry ==
    \A ip \in IPs :
        (lastActive[ip] >= 0 /\ Quiet(ip)
            /\ now - lastActive[ip] > cfg.CleanupInterval) =>
                /\ ipLimiters[ip] = 0
                /\ GetIPFrequency(ip).n = 0

\* C5 amended: once a sweep has completed, every entry left in the table was
\* last seen within cleanup_interval of that sweep's start; an address
\* without an entry has frequency 0; and an entry that appears in the table
\* is a fresh record (full bucket, zero counter, first- and last-seen now).
C5_SweepRemovesIdleEntries ==
    /\ [](/\ (spc = "idle" /\ sweepNow >= 0) =>
                \A ip \in IPs :
                    ipLimiters[ip] # 0 =>
                        sweepNow - recs[ipLimiters[ip]].LastRequest
                            <= cfg.CleanupInterval
          /\ \A ip \in IPs : ipLimiters[ip] = 0 => GetIPFrequency(ip).n = 0)
    /\ [][\A ip \in IPs :
             (ipLimiters[ip] = 0 /\ ipLimiters'[ip] # 0) =>
                 recs'[ipLimiters'[ip]] = NewIPLimiterInfo(now)]_vars

\* the one call made so far was an admitted Allow, nothing is under way, and
\* a completed sweep has emptied the table: the record of that address was
\* removed for having been idle
C5_Witness ==
    /\ spc = "idle"
    /\ sweepNow >= 0
    /\ ncalls = 1
    /\ totalRequests = 1
    /\ \A p \in Procs : lpc[p] = "idle"
    /\ \A ip \in IPs : ipLimiters[ip] = 0
    /\ GetIPFrequency("a").n = 0

DelayUpperBound == cfg.BaseDelay + cfg.MaxIPPenalty + cfg.MaxGlobalPenalty

\* C6: every value CalculateDelay returns lies between base_delay and
\* base_delay + max_ip_penalty + max_global_penalty.
C6_DelayWithinBounds ==
    \A p \in Procs :
        call[p].result = "delay" =>
            /\ call[p].delay >= cfg.BaseDelay
            /\ call[p].delay <= DelayUpperBound

\* a delay computed after an admitted request, with both penalties at
\* their caps
C6_Witness ==
    \E p \in Procs :
        /\ call[p].result = "delay"
        /\ call[p].seenCount >= 1
        /\ call[p].delay = DelayUpperBound

\* CalculateDelay was asked about an address with no admitted request, at a
\* moment of no global load (load factor at its floor of 1)
FirstContact(p) ==
    /\ call[p].result = "delay"
    /\ call[p].seenCount = 0
    /\ call[p].load.n = call[p].load.d

\* C7 as stated: for a first contact CalculateDelay equals base_delay.
C7_FirstContactIsBaseDelay ==
    \A p \in Procs : FirstContact(p) => call[p].delay = cfg.BaseDelay

\* base_delay + min(max_ip_penalty, ip_rate_multiplier * base_delay)
\*            + min(max_global_penalty, global_rate_multiplier * base_delay),
\* truncated (the multipliers are in tenths)
FirstContactDelay ==
    (cfg.BaseDelay * 10
       + Min(cfg.MaxIPPenalty * 10, cfg.IPRateMultiplier * cfg.BaseDelay)
       + Min(cfg.MaxGlobalPenalty * 10, cfg.GlobalRateMultiplier * cfg.BaseDelay))
    \div 10

\* C7 amended: for a first contact both frequency factors are at their
\* floor of 1, and CalculateDelay equals base_delay plus the two penalties
\* at factor 1.
C7_FirstContactDelay ==
    \A p \in Procs : FirstContact(p) => call[p].delay = FirstContactDelay

C7_Witness == \E p \in Procs : lpc[p] = "done" /\ FirstContact(p)

----------------------------------------------------------------------------
(* Claims about the network server, checked under SpecServer *)

\* sessions that are registered, whose handler has not returned and whose
\* socket is open
LiveSessions == {s \in Sessions : sst[s] \in {"add", "handle"} /\ sockOpen[s]}

\* C1: the number of live sessions never exceeds max_connections, whatever
\* the interleaving of accepts, handler returns and reaper activity.
C1_LiveWithinMax == Cardinality(LiveSessions) <= scfg.MaxConnections

----------------------------------------------------------------------------
(* Claims about the protocol handler, checked under SpecHandler *)

CountEvents(type) ==
    Cardinality({i \in 1..Len(events) : events[i].EventType = type})

CountWritten(kind) ==
    Cardinality({i \in 1..Len(written) : written[i].kind = kind})

\* the handler has processed a handshake whose next state is login
LoginArmEntered ==
    \E i \in 1..Len(events) :
        events[i].EventType = "handshake" /\ events[i].NextState = 2

\* C8: once the login arm is entered the handler emits one login_attempt
\* event and one login-disconnect frame, whatever the peer sends next: never
\* more than one of either, and exactly one of each when the handler has
\* returned without a failed write.
C8_LoginEmitsOnce ==
    LoginArmEntered =>
        /\ CountEvents("login_attempt") <= 1
        /\ CountWritten("disconnect") <= 1
        /\ (hpc = "returned" /\ herr # "write failed") =>
               /\ CountEvents("login_attempt") = 1
               /\ CountWritten("disconnect") = 1

\* the frames of `sent` that are handshakes with next state login
LoginHandshakes ==
    {i \in 1..Len(sent) :
        /\ parseHandshakeFast(FrameBytes(sent[i])).ok
        /\ parseHandshakeFast(FrameBytes(sent[i])).NextState = 2}

\* the name in a LoginStart frame (length, packet id 0, string), empty when
\* the frame is not one
LoginStartName(data) ==
    LET packetLen == ReadVarInt(data, 1)
        packetID == ReadVarInt(data, packetLen.next)
        name == ReadString(data, packetID.next)
    IN IF packetLen.ok /\ packetID.ok /\ packetID.val = 0 /\ name.ok
       THEN name.val ELSE <<>>

\* the username the peer supplied: the name of the frame that follows its
\* first login handshake
SuppliedUsername ==
    IF LoginHandshakes = {} THEN <<>>
    ELSE LET i == CHOOSE k \in LoginHandshakes : \A j \in LoginHandshakes : k <= j
         IN IF i + 1 > Len(sent) THEN <<>>
            ELSE LoginStartName(FrameBytes(sent[i + 1]))

\* C9: every login_attempt event carries a delay of at least base_delay (in
\* milliseconds) and, once the session is over, the username the peer
\* supplied in LoginStart (empty only if it supplied none).
C9_LoginEventCarriesUsername ==
    \A i \in 1..Len(events) :
        events[i].EventType = "login_attempt" =>
            /\ events[i].DelayApplied >= Milliseconds(cfg.BaseDelay)
            /\ hpc = "returned" => events[i].Username = SuppliedUsername

\* the length the first bytes of a frame declare
DeclaredLength(data) == ReadVarInt(data, 1).val

RECURSIVE BytesOf(_)
BytesOf(names) ==
    IF names = <<>> THEN 0
    ELSE Len(FrameBytes(Head(names))) + BytesOf(Tail(names))

\* the handler has read some of what the peer sent
HandlerHasRead == Len(inbuf) < BytesOf(sent)

\* C10: when the first frame declares a length above 512 the handler writes
\* nothing, and once it has read the frame and returned it has logged
\* exactly one protocol_violation event, which names the oversize.
C10_OversizeRejected ==
    (Len(sent) >= 1 /\ DeclaredLength(FrameBytes(sent[1])) > MaxPacketSize) =>
        /\ written = <<>>
        /\ (hpc = "returned" /\ HandlerHasRead) =>
               /\ CountEvents("protocol_violation") = 1
               /\ \A i \in 1..Len(events) :
                      events[i].EventType = "protocol_violation" =>
                          events[i].ErrorMessage = "packet too large"

\* a frame within the buffer size, with packet id 0, that holds all the
\* handshake fields, one of them out of range
BadHandshake(data) ==
    LET packetLen == ReadVarInt(data, 1)
        packetID == ReadVarInt(data, packetLen.next)
        protocol == ReadVarInt(data, packetID.next)
        addrLen == ReadVarInt(data, protocol.next)
        address == ReadString(data, protocol.next)
        port == ReadUnsignedShort(data, address.next)
        intention == ReadVarInt(data, port.next)
    IN /\ Len(data) <= MaxPacketSize
       /\ packetLen.ok /\ packetID.ok /\ packetID.val = 0
       /\ protocol.ok /\ address.ok /\ port.ok /\ intention.ok
       /\ \/ protocol.val < 47 \/ protocol.val > 1000
          \/ addrLen.val > MaxStringLen
          \/ intention.val \notin {1, 2}

\* C11: when the only frame of the peer is a handshake whose protocol is
\* outside [47, 1000], whose address is longer than the cap or whose next
\* state is not 1 or 2, no handshake event is emitted and nothing is
\* written, and once the handler has read the frame and returned it has
\* logged one protocol_violation event and ended the session with a
\* rejection.
C11_BadHandshakeRejected ==
    (Len(sent) = 1 /\ BadHandshake(FrameBytes(sent[1]))) =>
        /\ written = <<>>
        /\ CountEvents("handshake") = 0
        /\ (hpc = "returned" /\ HandlerHasRead) =>
               /\ CountEvents("protocol_violation") = 1
               /\ herr = "rejected"

\* the kinds of the events logged so far, in order
EventTypes == [i \in 1..Len(events) |-> events[i].EventType]

\* the peer sent a handshake with next state 1 and then a status request
StatusSessionSent ==
    /\ Len(sent) = 2
    /\ parseHandshakeFast(FrameBytes(sent[1])).ok
    /\ parseHandshakeFast(FrameBytes(sent[1])).NextState = 1
    /\ FrameBytes(sent[2]) = StatusRequestFrame

\* the handler has read all the peer sent and returned without an error
CleanEnd == hpc = "returned" /\ herr = "nil" /\ inbuf = <<>>

\* C12: a session in which the peer sends a handshake with next state 1 and
\* a status request, and which ends cleanly, has logged exactly two events:
\* handshake, then status_query.
C12_StatusSessionEvents ==
    (StatusSessionSent /\ CleanEnd) => EventTypes = <<"handshake", "status_query">>

\* C13: in a status session the handler writes one status response, whether
\* the handshake and the status request arrive in one read or in two: never
\* more than one, and exactly one when the session has ended cleanly.
C13_OneStatusResponse ==
    StatusSessionSent =>
        /\ CountWritten("status") <= 1
        /\ CleanEnd => CountWritten("status") = 1

\* the bytes of the read the handler is about to process
NextRead == SubSeq(inbuf, 1, Min(MaxPacketSize, Len(inbuf)))

\* the handler takes a step that reads from the connection
ReadStep == hpc = "read" /\ Len(inbuf') < Len(inbuf)

\* the timestamp a pong for `data` is to carry
ExpectedTimestamp(data) ==
    [i \in 1..8 |-> IF Len(data) >= 10 THEN data[i + 2] ELSE i - 1]

OneByteSent == Len(sent) = 1 /\ Len(FrameBytes(sent[1])) = 1

----------------------------------------------------------------------------
(* Claims about admission, checked under SpecAdmission *)

\* one earlier connection, from the other address, has been through Allow
\* and no second has passed since the limiter was built
OneEarlierFromOther == ncalls = 1 /\ ipLimiters["b"] # 0 /\ now = 0

----------------------------------------------------------------------------
(* Claims about the upstream mirror, checked under SpecSyncer *)

\* C17: every call of GetRawResponse that has returned holds a slice that
\* the cache held in full at some moment: the startup payload or one the
\* poller assigned, never the pointer of one payload with the length of
\* another, whatever the interleaving of readers and poller.
C17_NoTornPayload ==
    \A r \in Readers : gpc[r] = "done" => got[r] \in assigned /\ Complete(got[r])

C17_Witness ==
    /\ gpc["r1"] = "done"
    /\ got["r1"] # Slice(createDefaultResponse)
    /\ gpc["r2"] \in {"data", "len"}
    /\ ppc \in {"update_lock", "offline_lock"}

\* the last finished poll was successful and no later poll has begun to
\* write the cache
AfterSuccessfulPoll ==
    /\ lastPoll.ended = "ok"
    /\ ppc \in {"idle", "ping", "update_lock", "offline_lock"}

\* C18: with override_version = false, after a successful poll that
\* received the payload P the cache holds exactly the bytes of P, and so
\* does every caller of GetRawResponse that is reading it, until the next
\* poll writes the cache.
C18_RawPayloadCached ==
    (~ucfg.OverrideVersion /\ AfterSuccessfulPoll) =>
        /\ cachedResponse = Slice(lastPoll.received)
        /\ \A r \in Readers : gpc[r] = "len" => got[r].data = lastPoll.received

C18_Witness ==
    /\ ~ucfg.OverrideVersion
    /\ AfterSuccessfulPoll
    /\ lastPoll.received = UpGood
    /\ gpc["r1"] = "done"
    /\ got["r1"] = Slice(UpGood)

OfflineRewriteStep == ppc = "offline_data" /\ ppc' = "offline_len"

\* a failed poll ends while the unavailable flag is already set
RepeatedFailureStep == ppc = "offline_lock" /\ upstreamUnavailable /\ ppc' = "idle"

\* updateStateOffline is reached after exactly retry_count + 1 failed
\* attempts, it sets the flag, and with the flag set nothing but a
\* successful poll changes cache or flag
RetryBudgetAndFlag ==
    /\ (ppc = "ping" /\ ppc' = "offline_lock") => attempt' = ucfg.RetryCount + 1
    /\ (ppc = "ping" /\ ppc' = "ping") => attempt' <= ucfg.RetryCount
    /\ (ppc = "offline_flag" /\ ppc' = "idle") => upstreamUnavailable'
    /\ RepeatedFailureStep => UNCHANGED <<cachedResponse, upstreamUnavailable>>
    /\ (upstreamUnavailable /\ ppc \notin {"update_data", "update_len", "update_flag"})
           => UNCHANGED <<cachedResponse, upstreamUnavailable>>

\* C20: when a poll has used up its retry_count + 1 attempts the
\* cache is rewritten to a payload with players.online = 0 whose other
\* members are those of the payload it held, and the flag is set; with the
\* flag set, further failed polls change neither cache nor flag.
C20_OfflineSetsOnlineZero ==
    [][/\ RetryBudgetAndFlag
       /\ OfflineRewriteStep =>
              LET c == cachedResponse.data
                  d == cachedResponse'.data
              IN /\ Parses(d)
                 /\ d.players.present
                 /\ d.players.online = 0
                 /\ d.players.max = c.players.max
                 /\ d.version = c.version
                 /\ d.rest = c.rest]_vars

\* a status payload: a JSON object with a version and a players member
WellFormedStatus(b) ==
    /\ Parses(b)
    /\ b.version.present
    /\ b.players.present

\* C21: whenever the cache can be read (no writer holds the mutex) it holds
\* well-formed JSON with a version and a players member, whatever the
\* upstream server answered and whichever polls failed.
C21_CacheWellFormed ==
    ~mu.writer => /\ Complete(cachedResponse)
                  /\ WellFormedStatus(cachedResponse.data)

\* the poller's step that ends a successful poll
SuccessStep == ppc = "update_flag" /\ ppc' = "idle"

\* a failed poll reaches updateStateOffline and takes the lock
FailureStep == ppc = "offline_lock" /\ ppc' # "offline_lock"

\* C22: a successful poll that finds the unavailable flag set leaves the
\* new upstream payload in the cache (with the configured version when
\* override_version is on) and the flag cleared; a failed poll that follows
\* such a recovery rewrites the cache again, to a payload with
\* players.online = 0.
C22_RecoveryThenOutage ==
    [][/\ (SuccessStep /\ upstreamUnavailable) =>
              LET c == cachedResponse'.data
              IN /\ ~upstreamUnavailable'
                 /\ Complete(cachedResponse')
                 /\ IF ucfg.OverrideVersion /\ Parses(resp)
                    THEN /\ Parses(c)
                         /\ c.version.name = Messages.VersionName
                         /\ c.version.protocol = Messages.ProtocolVersion
                         /\ c.players = resp.players
                         /\ c.rest = resp.rest
                    ELSE c = resp
       /\ (FailureStep /\ lastPoll.recovered) => ppc' = "offline_data"
       /\ (OfflineRewriteStep /\ lastPoll.recovered) =>
              LET d == cachedResponse'.data
              IN /\ Parses(d)
                 /\ d.players.present
                 /\ d.players.online = 0]_vars

\* C23: the honeypot file, when it has lines, begins with the header row;
\* every later line is an event row, not a header row, and has 13 fields.
C23_HeaderFirstThenRows ==
    hl.disk # <<>> =>
        /\ hl.disk[1] = HeaderLine
        /\ \A i \in 2..Len(hl.disk) : /\ hl.disk[i] # HeaderLine
                                      /\ FieldCount(hl.disk[i]) = 13

\* C24: once a session has returned and the acceptor has finished with it,
\* it is no longer in the live-sessions table and its socket is closed.
C24_ReturnClosesSocket ==
    \A s \in Sessions :
        sst[s] = "closed" =>
            /\ ~sockOpen[s]
            /\ \A e \in connections : e[2] # s

\* the close-all pass of lifecycleManager has finished
CloseAllDone == life.pc \in {"close", "done"}

\* a session is accepted in this step
AcceptStep == \E s \in Sessions : sst[s] = "none" /\ sst'[s] = "check"

\* C25: while lifecycleManager closes the sessions the listener is already
\* closed; once the close-all pass has finished no session is registered
\* in the table, and no session is accepted from then on.
C25_ListenerClosedFirst ==
    [][/\ life.pc = "range" => ~life.listenerOpen
       /\ CloseAllDone => connections = {}
       /\ CloseAllDone => ~AcceptStep]_vars

\* the listener and its accept loop have stopped
AcceptorStopped == life.acceptor = "stopped" /\ ~life.listenerOpen

\* C26: after the cancellation signal has fired the acceptor, the upstream
\* poller, the sweeper of the limiter and the reaper of the server each
\* eventually stop.
C26_TasksStopOnCancel ==
    life.cancelled ~> /\ AcceptorStopped
                      /\ tasks.poller = "stopped"
                      /\ tasks.sweeper = "stopped"
                      /\ tasks.reaper = "stopped"

\* the handler leaves a sleep in this step
LeavesSleep == hpc \in {"sleep", "login_sleep"} /\ hpc' # hpc

\* C27: once the session's context is cancelled the handler logs no further
\* honeypot event, a handler that was sleeping writes nothing when its sleep
\* ends, and a handler that has returned has closed its socket.
C27_CancelEndsSession ==
    [][life.cancelled =>
           /\ events' = events
           /\ LeavesSleep => written' = written
           /\ hpc' = "returned" => ~sockOpen'[HSession]]_vars

\* the handler has entered the Status arm, the Login arm
StatusArm == \E i \in 1..Len(events) :
                 events[i].EventType = "handshake" /\ events[i].NextState = 1
LoginArm == \E i \in 1..Len(events) :
                events[i].EventType = "handshake" /\ events[i].NextState = 2

\* C28: a connection goes through at most one handshake and one arm: the
\* handler processes no second handshake, never enters both arms, and once
\* it has written the login disconnect it has returned and the connection
\* reads nothing more.
C28_OneShot ==
    /\ CountEvents("handshake") <= 1
    /\ ~(StatusArm /\ LoginArm)
    /\ CountWritten("disconnect") >= 1 => hpc = "returned"

\* the least number of 7-bit groups that hold v
MinimalLen(v) == IF v < 128 THEN 1 ELSE IF v < 16384 THEN 2 ELSE 3

\* C29: for every v in 0..100000 encodeVarInt gives the minimal encoding, of
\* one to three bytes, with the high bit set on every byte but the last and
\* the 7-bit groups in little-endian order; reading it back gives v and
\* consumes all of it.
C29_VarIntRoundTrip ==
    LET v == codec.v
        e == codec.out
    IN /\ codec.stage # "input" =>
              /\ Len(e) \in 1..3
              /\ Len(e) = MinimalLen(v)
              /\ \A i \in 1..Len(e) : e[i] \in 0..255 /\ (e[i] >= 128 <=> i < Len(e))
              /\ v = (e[1] % 128)
                     + (IF Len(e) >= 2 THEN (e[2] % 128) * 128 ELSE 0)
                     + (IF Len(e) >= 3 THEN (e[3] % 128) * 16384 ELSE 0)
       /\ codec.stage = "decoded" =>
              /\ codec.dec.ok
              /\ codec.dec.val = v
              /\ codec.dec.next = Len(e) + 1

C29_Witness ==
    /\ codec.stage = "decoded"
    /\ codec.v = MaxVarIntValue
    /\ codec.out = <<160, 141, 6>>
    /\ codec.dec.val = MaxVarIntValue

\* C30: a configuration Load returns satisfies every check of validate;
\* validate refuses a configuration whose port is outside 1..65535, and so
\* does Load when the file names such a port (0 in the file means unset);
\* the empty configuration is accepted with the defaults filled in.
C30_LoadedConfigValid ==
    /\ conf.stage = "loaded" =>
           /\ conf.err = "nil"
           /\ conf.c.Port \in 1..65535
           /\ conf.c.MaxConnections >= 1
           /\ conf.c.IPLimit >= 1
           /\ conf.c.GlobalLimit >= 1
           /\ conf.c.IPFrequencyFactor > 0
           /\ conf.c.GlobalLoadFactor > 0
           /\ conf.c.ProtocolVersion >= 1
    /\ (conf.stage = "validated" /\ conf.raw.Port \notin 1..65535) =>
           conf.err # "nil"
    /\ (conf.stage \in {"loaded", "failed"} /\ conf.raw.Port \notin 0..65535) =>
           conf.stage = "failed" /\ conf.err # "nil"
    /\ (conf.stage \in {"loaded", "failed"} /\ conf.raw = EmptyConfig) =>
           /\ conf.stage = "loaded"
           /\ conf.c.Host = "0.0.0.0"
           /\ conf.c.Port = 25565
           /\ conf.c.IPLimit = 5
           /\ conf.c.BaseDelay = 100

C30_Witness ==
    /\ conf.stage = "loaded"
    /\ conf.raw = EmptyConfig
    /\ conf.c.Port = 25565

\* C31: RequestCount and LastRequest of a record and totalRequests change only
\* in the updateStats of an admitted Allow, which adds exactly one to the
\* record's RequestCount and to totalRequests; the step in which an Allow
\* returns false changes none of them.  (A record that is created or
\* collected is not a record whose fields change.)
StatsStep(p) ==
    /\ lpc[p] = "stats"
    /\ lpc'[p] = "done"
    /\ call'[p].result = "admit"

DeniedStep(p) ==
    /\ lpc[p] # "done"
    /\ lpc'[p] = "done"
    /\ call'[p].result \in {"deny_global", "deny_ip"}

SameRecord(r) == recs[r] # NoRec /\ recs'[r] # NoRec

C31_StatsOnlyOnAdmit ==
    [][/\ \A r \in RecIds :
            (/\ SameRecord(r)
             /\ \/ recs'[r].RequestCount # recs[r].RequestCount
                \/ recs'[r].LastRequest # recs[r].LastRequest)
            => \E p \in Procs : StatsStep(p) /\ call[p].rec = r
       /\ totalRequests' # totalRequests => \E p \in Procs : StatsStep(p)
       /\ \A p \in Procs : StatsStep(p) =>
            /\ recs'[call[p].rec].RequestCount =
                   recs[call[p].rec].RequestCount + 1
            /\ recs'[call[p].rec].LastRequest = now
            /\ totalRequests' = totalRequests + 1
       /\ \A p \in Procs : DeniedStep(p) =>
            /\ totalRequests' = totalRequests
            /\ \A r \in RecIds : SameRecord(r) =>
                   /\ recs'[r].RequestCount = recs[r].RequestCount
                   /\ recs'[r].LastRequest = recs[r].LastRequest
      ]_vars

\* a call refused by the bucket of an address another call was admitted for
C31_Witness ==
    \E p, q \in Procs :
        /\ lpc[p] = "done" /\ call[p].result = "deny_ip"
        /\ lpc[q] = "done" /\ call[q].result = "admit"
        /\ call[p].rec = call[q].rec
        /\ recs[call[q].rec].RequestCount = 1
        /\ totalRequests = 1

\* C32: the first delay is slept through after admission and before anything
\* is read; a session that enters the login arm sleeps through exactly one
\* more, before the login disconnect is written, two in all; a session that
\* does not enter it sleeps through one.
C32_DelayPaidTwice ==
    /\ paid # <<>> => paid[1] = "admission"
    /\ paid = <<>> => events = <<>> /\ written = <<>>
    /\ CountWritten("disconnect") >= 1 =>
           Len(paid) >= 2 /\ paid[2] = "login"
    /\ LoginArm => Len(paid) <= 2
    /\ ~LoginArm => Len(paid) <= 1
    /\ (hpc = "returned" /\ herr = "nil") =>
           paid = IF LoginArm THEN <<"admission", "login">>
                  ELSE <<"admission">>

\* C33: once a handshake with next state 2 has been read, the handler needs
\* no LoginStart: when the second delay is over it writes the login
\* disconnect and then logs a login_attempt with an empty username, also when
\* the peer has closed; when that write fails it logs no login_attempt and
\* returns, the second delay having been slept through.
C33_LoginWithoutLoginStart ==
    [][(hpc = "login_sleep" /\ hpc' # "login_sleep") =>
           /\ paid' = Append(paid, "login")
           /\ \/ /\ written' = Append(written,
                                  [kind |-> "disconnect", payload |-> <<>>])
                 /\ events' = Append(events,
                        [NoEvent EXCEPT !.EventType = "login_attempt",
                                        !.Username = <<>>,
                                        !.DelayApplied = Milliseconds(loginDelay)])
                 /\ hpc' # "returned"
              \/ /\ written' = written
                 /\ events' = events
                 /\ hpc' = "returned"
                 /\ herr' = "write failed"
      ]_vars

\* the peer sent the handshake and closed; the write of the disconnect failed
C33_Witness ==
    /\ sent = <<"handshake_login">>
    /\ peerClosed
    /\ hpc = "returned"
    /\ herr = "write failed"
    /\ paid = <<"admission", "login">>
    /\ written = <<>>
    /\ CountEvents("login_attempt") = 0
    /\ CountEvents("handshake") = 1

\* what the file writer has received is whole records, one after another
WholeRecords(out) ==
    /\ Len(out) % 2 = 0
    /\ \A i \in 1..Len(out) :
           IF i % 2 = 1
           THEN out[i][2] = 1 /\ out[i + 1] = <<out[i][1], 2>>
           ELSE out[i][2] = 2

\* C34: with any number of sessions inside LogEvent and a caller inside
\* Close, at most one of them is between Lock and Unlock, what the file
\* writer receives is whole records, never parts of two records mixed, and a
\* disabled logger writes nothing and returns nil.
C34_OneWriterAtATime ==
    /\ Cardinality(InFlight) <= 1
    /\ InFlight # {} => hl.mutex \in InFlight
    /\ WholeRecords(hl.out)
    /\ (\A w \in Writers : hl.pc[w] # "part2") => WholeRecords(hl.buf)
    /\ ~hl.enabled =>
           /\ hl.out = <<>>
           /\ hl.buf = <<>>
           /\ \A w \in LogCallers : hl.calls[w] > 0 => hl.ret[w] = "nil"

\* two sessions have logged two events each around a Close
C34_Witness ==
    /\ hl.enabled
    /\ Len(hl.out) = 8
    /\ hl.out[1][1] # hl.out[3][1]
    /\ hl.calls[Closer] = 1
    /\ \A w \in LogCallers : hl.pc[w] = "idle" /\ hl.ret[w] = "nil"

\* the reaper's pass ends in this step
ReaperPassEnds == rpc = "range" /\ rpc' = "idle"

\* the reaper closes the socket of session s in this step
ReaperCloses(s) ==
    /\ rpc = "range"
    /\ rtodo' # rtodo
    /\ sockOpen[s]
    /\ ~sockOpen'[s]

\* C35: when a pass of the reaper ends, every live session that had been
\* started more than idle_timeout before the pass began is closed; the reaper
\* closes no session that was started within idle_timeout of now.
C35_ReaperClosesExpiredOnly ==
    [][/\ ReaperPassEnds =>
            \A s \in LiveSessions :
                ~(rnow - sconn[s].StartTime > scfg.IdleTimeout)
       /\ \A s \in Sessions : ReaperCloses(s) =>
            now - sconn[s].StartTime > scfg.IdleTimeout
      ]_vars

\* no accept or close is in progress
ServerQuiet ==
    /\ \A s \in Sessions : sst[s] \in {"none", "handle", "rejected", "closed"}
    /\ rpc = "idle"

\* C37: connCount is never negative and, whenever no accept or close is in
\* progress, equals the number of entries of the connections table.
C37_CountMatchesTable ==
    /\ connCount >= 0
    /\ ServerQuiet => connCount = Cardinality(connections)

\* C38: two sessions that are live at the same time have different
\* identifiers, and each has its own entry in the connections table.
C38_LiveIdsUnique ==
    \A s \in LiveSessions :
        /\ <<sconn[s].ID, s>> \in connections
        /\ \A q \in LiveSessions : q # s => sconn[q].ID # sconn[s].ID

\* the lookup of caller p returns in this step
LookupReturns(p) == lpc[p] \in {"load", "store"} /\ lpc'[p] \notin {"load", "store"}

CMQuiet ==
    /\ \A c \in CMCallers : cm.pc[c] = "idle"
    /\ cm.clean.pc = "idle"

\* C39: once all calls of Store, Delete and CleanupExpired have returned,
\* Count() is the number of connections held in the shards.
C39_CountIsHeld == CMQuiet => cm.count = Cardinality(CMHeld(cm))

\* every call of the FastRateLimiter has returned
FastQuiet ==
    /\ \A c \in FastCallers : frl.pc[c] = "idle"
    /\ frl.rpc = "idle"

\* C40: once all calls of Allow and Reset have returned globalCount is not
\* negative, and no more than GlobalLimit calls pass the global check
\* between one Reset and the next.
C40_GlobalWithinLimit ==
    /\ FastQuiet => frl.globalCount >= 0
    /\ frl.passed <= cfg.GlobalLimit

====
